---- MODULE Spec2Model ----
\* A model of killjoy's bus watcher (src/src/bus.rs), of the unit state
\* machine it drives (src/src/unit.rs) and of the service manager and bus
\* daemon it talks to.
EXTENDS Integers, Sequences, FiniteSets, TLC

VARIABLES
    usm, usm_prev, usm_op, usm_calls,
    settings, conn_bus, loop_once,
    loaded, mprops, clock, load_events,
    unit_removed_match, unit_new_match, pc_match, queue,
    pc, unit_names, cur, unit_states, result,
    startup_calls, unit_calls, set_up, last_fired, last_signal, fired, notified,
    bus_types, handles, workers, handled, joined, exit_code, main_pc,
    fn_call,
    watchers

usm_vars ==
    <<usm, usm_prev, usm_op, usm_calls>>

manager_vars ==
    <<loaded, mprops, clock, load_events>>

watcher_vars ==
    <<settings, conn_bus, loop_once, unit_removed_match, unit_new_match, pc_match,
      queue, pc, unit_names, cur, unit_states, result,
      startup_calls, unit_calls, set_up, last_fired, last_signal, fired, notified>>

main_vars ==
    <<bus_types, handles, workers, handled, joined, exit_code, main_pc>>

vars ==
    <<usm, usm_prev, usm_op, usm_calls,
      bus_types, handles, workers, handled, joined, exit_code, main_pc,
      settings, conn_bus, loop_once,
      loaded, mprops, clock, load_events,
      unit_removed_match, unit_new_match, pc_match, queue,
      pc, unit_names, cur, unit_states, result,
      startup_calls, unit_calls, set_up, last_fired, last_signal, fired, notified,
      fn_call, watchers>>

\* ---------------------------------------------------------------------------
\* Bounds of the model.

\* Largest timestamp handed to a lone unit state machine.
MaxTs ==
    3

\* Largest value of the manager's monotonic clock.
MaxClock ==
    2

\* Number of unit load / unload events the manager performs.
MaxLoadEvents ==
    2

\* Number of events of either kind (state changes, loads and unloads) the
\* manager performs.
MaxEvents ==
    4

\* Number of messages a worker thread of the supervisor is followed through.
MaxHandled ==
    2

\* Capacity of the connection's incoming queue.
MaxQueue ==
    3

\* Largest length of a bus name handed to make_path_like_bus_name.
MaxLen ==
    3

\* Largest length of a rule list handed to the rule filters.
MaxRules ==
    2

\* ---------------------------------------------------------------------------
\* Values.

None ==
    "None"

\* No record: no state machine yet, no property map read yet.
Absent ==
    <<>>

\* enum ActiveState
ActiveState ==
    {"Activating", "Active", "Deactivating", "Failed", "Inactive"}

\* A conversion that takes any unknown string for "inactive".
ActiveStateTryFromLenient(value) ==
    CASE value = "activating" -> "Activating"
      [] value = "active" -> "Active"
      [] value = "deactivating" -> "Deactivating"
      [] value = "failed" -> "Failed"
      [] OTHER -> "Inactive"

\* impl TryFrom<&str> for ActiveState
ActiveStateTryFrom(value) ==
    CASE value = "activating" -> "Activating"
      [] value = "active" -> "Active"
      [] value = "deactivating" -> "Deactivating"
      [] value = "failed" -> "Failed"
      [] value = "inactive" -> "Inactive"
      [] OTHER -> "InvalidActiveState"

\* A conversion that writes the variant's name as it is spelled in the enum.
StringFromActiveStateDebug(value) ==
    value

\* impl From<ActiveState> for String
StringFromActiveState(value) ==
    CASE value = "Activating" -> "activating"
      [] value = "Active" -> "active"
      [] value = "Deactivating" -> "deactivating"
      [] value = "Failed" -> "failed"
      [] value = "Inactive" -> "inactive"

\* A mapping that reads the time a failed unit left the active state.
get_timestamp_key_failed_exit(active_state) ==
    CASE active_state = "Activating" -> "InactiveExitTimestampMonotonic"
      [] active_state = "Active" -> "ActiveEnterTimestampMonotonic"
      [] active_state = "Deactivating" -> "ActiveExitTimestampMonotonic"
      [] active_state = "Failed" -> "ActiveExitTimestampMonotonic"
      [] active_state = "Inactive" -> "InactiveEnterTimestampMonotonic"

\* fn get_monotonic_timestamp_key (src/src/timestamp.rs)
get_monotonic_timestamp_key(active_state) ==
    CASE active_state = "Activating" -> "InactiveExitTimestampMonotonic"
      [] active_state = "Active" -> "ActiveEnterTimestampMonotonic"
      [] active_state = "Deactivating" -> "ActiveExitTimestampMonotonic"
      [] active_state = "Failed" -> "InactiveEnterTimestampMonotonic"
      [] active_state = "Inactive" -> "InactiveEnterTimestampMonotonic"

\* fn get_timestamp_key
get_timestamp_key(active_state) ==
    CASE active_state = "Activating" -> "InactiveExitTimestampMonotonic"
      [] active_state = "Active" -> "ActiveEnterTimestampMonotonic"
      [] active_state = "Deactivating" -> "ActiveExitTimestampMonotonic"
      [] active_state = "Failed" -> "InactiveEnterTimestampMonotonic"
      [] active_state = "Inactive" -> "InactiveEnterTimestampMonotonic"

\* ---------------------------------------------------------------------------
\* The unit state machine (src/src/unit.rs).  new and update return the
\* machine together with the on_change calls they made; each call records the
\* machine as the callback sees it and the old state it is given.

\* struct UnitStateMachine
UnitStateMachine(active_state, mono_ts) ==
    [active_state |-> active_state, mono_ts |-> mono_ts]

\* A constructor that skips the initial on_change call.
UsmNewSilent(active_state, mono_ts) ==
    [usm |-> UnitStateMachine(active_state, mono_ts), calls |-> <<>>]

\* UnitStateMachine::new
UsmNew(active_state, mono_ts) ==
    LET new_usm == UnitStateMachine(active_state, mono_ts)
    IN  [usm |-> new_usm, calls |-> <<[seen |-> new_usm, old_state |-> None]>>]

\* A state machine that accepts an equal timestamp.
UsmUpdateNotStrict(self, active_state, mono_ts) ==
    IF self.mono_ts <= mono_ts
    THEN LET stamped == [self EXCEPT !.mono_ts = mono_ts]
         IN  IF self.active_state # active_state
             THEN LET changed == [stamped EXCEPT !.active_state = active_state]
                  IN  [usm |-> changed,
                       calls |-> <<[seen |-> changed, old_state |-> self.active_state]>>]
             ELSE [usm |-> stamped, calls |-> <<>>]
    ELSE [usm |-> self, calls |-> <<>>]

\* A state machine that takes whatever it is given.
UsmUpdateNoTimestampCheck(self, active_state, mono_ts) ==
    LET stamped == [self EXCEPT !.mono_ts = mono_ts]
    IN  IF self.active_state # active_state
        THEN LET changed == [stamped EXCEPT !.active_state = active_state]
             IN  [usm |-> changed,
                  calls |-> <<[seen |-> changed, old_state |-> self.active_state]>>]
        ELSE [usm |-> stamped, calls |-> <<>>]

\* A state machine that calls back before it stores the new state.
UsmUpdateCallbackFirst(self, active_state, mono_ts) ==
    IF self.mono_ts < mono_ts
    THEN LET stamped == [self EXCEPT !.mono_ts = mono_ts]
         IN  IF self.active_state # active_state
             THEN [usm |-> [stamped EXCEPT !.active_state = active_state],
                   calls |-> <<[seen |-> stamped, old_state |-> self.active_state]>>]
             ELSE [usm |-> stamped, calls |-> <<>>]
    ELSE [usm |-> self, calls |-> <<>>]

\* A state machine that stores a timestamp only together with a new state.
UsmUpdateStampOnChange(self, active_state, mono_ts) ==
    IF self.mono_ts < mono_ts /\ self.active_state # active_state
    THEN LET changed == [active_state |-> active_state, mono_ts |-> mono_ts]
         IN  [usm |-> changed,
              calls |-> <<[seen |-> changed, old_state |-> self.active_state]>>]
    ELSE [usm |-> self, calls |-> <<>>]

\* UnitStateMachine::update
UsmUpdate(self, active_state, mono_ts) ==
    IF self.mono_ts < mono_ts
    THEN LET stamped == [self EXCEPT !.mono_ts = mono_ts]
         IN  IF self.active_state # active_state
             THEN LET changed == [stamped EXCEPT !.active_state = active_state]
                  IN  [usm |-> changed,
                       calls |-> <<[seen |-> changed, old_state |-> self.active_state]>>]
             ELSE [usm |-> stamped, calls |-> <<>>]
    ELSE [usm |-> self, calls |-> <<>>]

\* ---------------------------------------------------------------------------
\* A lone unit state machine driven with arbitrary arguments, as the unit
\* tests of src/src/unit.rs drive it.

UsmInit ==
    /\ usm = Absent
    /\ usm_prev = Absent
    /\ usm_op = Absent
    /\ usm_calls = <<>>

\* let usm = UnitStateMachine::new(active_state, mono_ts, &on_change)
usm_new(active_state, mono_ts) ==
    /\ usm = Absent
    /\ LET r == UsmNew(active_state, mono_ts)
       IN  /\ usm' = r.usm
           /\ usm_calls' = r.calls
    /\ usm_prev' = usm
    /\ usm_op' = [kind |-> "new", active_state |-> active_state, mono_ts |-> mono_ts]

\* usm.update(active_state, mono_ts, &on_change)
usm_update(active_state, mono_ts) ==
    /\ usm # Absent
    /\ LET r == UsmUpdate(usm, active_state, mono_ts)
       IN  /\ usm' = r.usm
           /\ usm_calls' = r.calls
    /\ usm_prev' = usm
    /\ usm_op' = [kind |-> "update", active_state |-> active_state, mono_ts |-> mono_ts]

\* ---------------------------------------------------------------------------
\* Names, paths and the configuration (src/src/settings.rs).  Unit names and
\* bus names are sequences of characters.

FooService ==
    <<"f", ".", "s">>

BarMount ==
    <<"b", ".", "m">>

\* The units the manager knows.
Units ==
    {FooService, BarMount}

\* const INTERFACE_FOR_SYSTEMD_UNIT
INTERFACE_FOR_SYSTEMD_UNIT ==
    "org.freedesktop.systemd1.Unit"

\* The object path the manager gives a unit.
PathOf(unit_name) ==
    <<"/">> \o unit_name

\* The Id property of the unit object at a path.
IdOfPath(path) ==
    Tail(path)

\* str::ends_with
EndsWith(str, suffix) ==
    /\ Len(suffix) <= Len(str)
    /\ SubSeq(str, Len(str) - Len(suffix) + 1, Len(str)) = suffix

\* str::starts_with
StartsWith(str, prefix) ==
    /\ Len(prefix) <= Len(str)
    /\ SubSeq(str, 1, Len(prefix)) = prefix

\* A match that looks for the unit type at the start of the name.
ExpressionMatchesPrefix(expression, unit_name) ==
    CASE expression.kind = "UnitName" -> unit_name = expression.expr
      [] expression.kind = "UnitType" -> StartsWith(unit_name, expression.expr)

\* Expression::matches (the Regex variant is not modelled)
ExpressionMatches(expression, unit_name) ==
    CASE expression.kind = "UnitName" -> unit_name = expression.expr
      [] expression.kind = "UnitType" -> EndsWith(unit_name, expression.expr)

\* A rule of the session bus: foo.service entering failed.
RuleSession ==
    [active_states |-> {"Failed"},
     bus_type |-> "Session",
     expression |-> [kind |-> "UnitName", expr |-> FooService],
     notifiers |-> <<"r">>]

\* A rule of the system bus: any mount unit entering active or inactive.
RuleSystem ==
    [active_states |-> {"Active", "Inactive"},
     bus_type |-> "System",
     expression |-> [kind |-> "UnitType", expr |-> <<".", "m">>],
     notifiers |-> <<"q">>]

\* struct Notifier, keyed by label
Notifiers ==
    [r |-> [bus_name |-> <<"n", ".", "R">>, bus_type |-> "Session"],
     q |-> [bus_name |-> <<"n", ".", "Q">>, bus_type |-> "System"]]

\* struct Settings: the configurations the watcher is run with.
SettingsChoices ==
    {[notifiers |-> Notifiers, rules |-> <<RuleSession, RuleSystem>>],
     [notifiers |-> Notifiers, rules |-> <<RuleSession>>]}

\* The supervisor spawns one watcher per bus of get_bus_types; the watcher
\* modelled is the session bus's.
WatchedBuses ==
    {"Session"}

\* A list of every bus there is, named by a rule or not.
get_bus_types_all(rules) ==
    {"Session", "System"}

\* settings::get_bus_types
get_bus_types(rules) ==
    {rules[i].bus_type : i \in 1..Len(rules)}

\* fn get_rules_matching_name
get_rules_matching_name(rules, unit_name) ==
    SelectSeq(rules, LAMBDA rule : ExpressionMatches(rule.expression, unit_name))

\* fn get_rules_matching_active_state
get_rules_matching_active_state(rules, target) ==
    SelectSeq(rules, LAMBDA rule : \E active_state \in rule.active_states : active_state = target)

\* A check that takes every unit for a unit of interest.
rules_match_name_any(rules, unit_name) ==
    TRUE

\* fn rules_match_name
rules_match_name(rules, unit_name) ==
    get_rules_matching_name(rules, unit_name) # <<>>

\* The characters of the bus names and object paths modelled: letters, the
\* hyphen and the separators.
Letters ==
    {"n", "R", "Q"}

\* BusName::new, as Notifier::new calls it: a well-known bus name has two or
\* more elements separated by '.', each of them non-empty and made of letters,
\* digits, '_' and '-'.
ValidBusName(bus_name) ==
    /\ \E i \in 1..Len(bus_name) : bus_name[i] = "."
    /\ bus_name[1] # "."
    /\ bus_name[Len(bus_name)] # "."
    /\ \A i \in 1..Len(bus_name) : bus_name[i] \in Letters \cup {"-", "."}
    /\ \A i \in 1..(Len(bus_name) - 1) : ~(bus_name[i] = "." /\ bus_name[i + 1] = ".")

\* Path::new: an object path starts with '/', has non-empty elements made of
\* letters, digits and '_', and does not end with '/' unless it is the root.
ValidPath(path_str) ==
    /\ path_str # <<>>
    /\ path_str[1] = "/"
    /\ \A i \in 1..Len(path_str) : path_str[i] \in Letters \cup {"/"}
    /\ \A i \in 1..(Len(path_str) - 1) : ~(path_str[i] = "/" /\ path_str[i + 1] = "/")
    /\ Len(path_str) > 1 => path_str[Len(path_str)] # "/"

\* No Path: Path::new(..).expect(..) panicked.
NoPath ==
    <<>>

\* fn make_path_like_bus_name
make_path_like_bus_name(bus_name) ==
    LET path_str == <<"/">> \o [i \in 1..Len(bus_name) |->
                                  IF bus_name[i] = "." THEN "/" ELSE bus_name[i]]
    IN  IF ValidPath(path_str) THEN path_str ELSE NoPath

RECURSIVE Concat(_)
\* The concatenation of a sequence of sequences.
Concat(seqs) ==
    IF seqs = <<>> THEN <<>> ELSE Head(seqs) \o Concat(Tail(seqs))

\* An outbound call whose body lists the old state first.
NotifyMessageOldFirst(st, notifier_name, unit_name, call) ==
    [notifier_name |-> notifier_name,
     missing |-> FALSE,
     bus_type |-> st.notifiers[notifier_name].bus_type,
     destination |-> st.notifiers[notifier_name].bus_name,
     path |-> make_path_like_bus_name(st.notifiers[notifier_name].bus_name),
     interface |-> "name.jerebear.KilljoyNotifier1",
     member |-> "Notify",
     body |-> <<call.seen.mono_ts,
                unit_name,
                IF call.old_state = None
                THEN <<StringFromActiveState(call.seen.active_state)>>
                ELSE <<StringFromActiveState(call.old_state),
                       StringFromActiveState(call.seen.active_state)>> >>]

\* The outbound call gen_on_change's closure builds for one notifier of one rule.
NotifyMessage(st, notifier_name, unit_name, call) ==
    IF notifier_name \notin DOMAIN st.notifiers
    THEN [notifier_name |-> notifier_name, missing |-> TRUE]
    ELSE LET notifier == st.notifiers[notifier_name]
         IN  [notifier_name |-> notifier_name,
              missing |-> FALSE,
              bus_type |-> notifier.bus_type,
              destination |-> notifier.bus_name,
              path |-> make_path_like_bus_name(notifier.bus_name),
              interface |-> "name.jerebear.KilljoyNotifier1",
              member |-> "Notify",
              body |-> <<call.seen.mono_ts,
                         unit_name,
                         IF call.old_state = None
                         THEN <<StringFromActiveState(call.seen.active_state)>>
                         ELSE <<StringFromActiveState(call.seen.active_state),
                                StringFromActiveState(call.old_state)>> >>]

\* A closure that calls the notifiers of every rule matching the unit's name,
\* whatever the state.
gen_on_change_any_state(st, unit_name, call) ==
    LET matching_rules == get_rules_matching_name(st.rules, unit_name)
    IN  Concat([i \in 1..Len(matching_rules) |->
                  [j \in 1..Len(matching_rules[i].notifiers) |->
                     NotifyMessage(st, matching_rules[i].notifiers[j], unit_name, call)]])

\* BusWatcher::gen_on_change: the outbound calls one on_change call asks for,
\* in the order of the closure's two loops.
gen_on_change(st, unit_name, call) ==
    LET by_name == get_rules_matching_name(st.rules, unit_name)
        matching_rules == get_rules_matching_active_state(by_name, call.seen.active_state)
    IN  Concat([i \in 1..Len(matching_rules) |->
                  [j \in 1..Len(matching_rules[i].notifiers) |->
                     NotifyMessage(st, matching_rules[i].notifiers[j], unit_name, call)]])

\* What can happen to one outbound call: the notifier's bus cannot be reached
\* (expect panics), the call fails or times out (logged), or it is answered.
SendOutcomes ==
    {"ok", "send_err", "conn_fail"}

\* The calls on_change made: every target up to the first one that panics.
Dispatch(targets, outcome) ==
    LET stops == {i \in 1..Len(targets) :
                     \/ targets[i].missing
                     \/ targets[i].path = NoPath
                     \/ outcome[i] = "conn_fail"}
        first == IF stops = {} THEN Len(targets) + 1
                 ELSE CHOOSE i \in stops : \A j \in stops : i <= j
    IN  [sent |-> SubSeq(targets, 1, first - 1), panicked |-> stops # {}]

\* All on_change calls of one upsert, flattened to outbound calls.
CallTargets(st, unit_name, calls) ==
    Concat([i \in 1..Len(calls) |-> gen_on_change(st, unit_name, calls[i])])

\* An upsert that replaces the stored machine instead of updating it.
UpsertAlwaysNew(states, unit_name, active_state, timestamp) ==
    LET r == UsmNew(active_state, timestamp)
    IN  [states |-> [n \in DOMAIN states \cup {unit_name} |->
                        IF n = unit_name THEN r.usm ELSE states[n]],
         calls |-> r.calls,
         created |-> TRUE]

\* unit_states.entry(name).and_modify(|usm| usm.update(..)).or_insert_with(|| new(..))
Upsert(states, unit_name, active_state, timestamp) ==
    IF unit_name \in DOMAIN states
    THEN LET r == UsmUpdate(states[unit_name], active_state, timestamp)
         IN  [states |-> [states EXCEPT ![unit_name] = r.usm],
              calls |-> r.calls,
              created |-> FALSE]
    ELSE LET r == UsmNew(active_state, timestamp)
         IN  [states |-> [n \in DOMAIN states \cup {unit_name} |->
                             IF n = unit_name THEN r.usm ELSE states[n]],
              calls |-> r.calls,
              created |-> TRUE]

\* A removal that forgets nothing.
ForgetNothing(unit_name, states) ==
    states

\* BusWatcher::forget_unit_state
forget_unit_state(unit_name, states) ==
    [n \in DOMAIN states \ {unit_name} |-> states[n]]

\* ---------------------------------------------------------------------------
\* The service manager and the bus daemon: the environment of the watcher.

\* The ActiveState strings the manager moves its units to; a unit that never
\* ran is "inactive".
ManagerStates ==
    {"active", "failed"}

\* The timestamp property the manager stamps when a unit enters a state.
ManagerTimestampProperty(state_str) ==
    CASE state_str = "activating" -> "InactiveExitTimestampMonotonic"
      [] state_str = "active" -> "ActiveEnterTimestampMonotonic"
      [] state_str = "deactivating" -> "ActiveExitTimestampMonotonic"
      [] state_str = "failed" -> "InactiveEnterTimestampMonotonic"
      [] state_str = "inactive" -> "InactiveEnterTimestampMonotonic"

\* The org.freedesktop.systemd1.Unit properties of a unit that never ran.
FreshProps ==
    [ActiveState |-> "inactive",
     InactiveExitTimestampMonotonic |-> 0,
     ActiveEnterTimestampMonotonic |-> 0,
     ActiveExitTimestampMonotonic |-> 0,
     InactiveEnterTimestampMonotonic |-> 0]

\* The orders in which ListUnits may list a set of units.
Orderings(S) ==
    {order \in [1..Cardinality(S) -> S] : \A u \in S : \E i \in DOMAIN order : order[i] = u}

NoCur ==
    [name |-> None, path |-> None, props |-> Absent, ctx |-> None]

\* The bus daemon routes a signal to the connection iff a match rule selects it.
Deliver(msg, wanted) ==
    /\ wanted => Len(queue) < MaxQueue
    /\ queue' = IF wanted THEN Append(queue, msg) ELSE queue

\* The manager loads a unit and announces it with UnitNew.
mgr_load(u) ==
    /\ pc # "exited"
    /\ u \notin loaded
    /\ load_events < MaxLoadEvents
    /\ clock + load_events < MaxEvents
    /\ loaded' = loaded \cup {u}
    /\ load_events' = load_events + 1
    /\ Deliver([type |-> "UnitNew", name |-> u, path |-> PathOf(u)], unit_new_match)
    /\ UNCHANGED <<mprops, clock>>
    /\ fired' = <<>>
    /\ notified' = <<>>
    /\ UNCHANGED <<settings, conn_bus, loop_once, set_up, last_fired,
                   unit_removed_match, unit_new_match, pc_match, pc, unit_names, cur, unit_states, result,
                   startup_calls, unit_calls>>
    /\ UNCHANGED usm_vars
    /\ UNCHANGED main_vars
    /\ UNCHANGED <<fn_call, watchers>>
    /\ last_signal' = Absent

\* The manager unloads a unit and announces it with UnitRemoved.
mgr_unload(u) ==
    /\ pc # "exited"
    /\ u \in loaded
    /\ load_events < MaxLoadEvents
    /\ clock + load_events < MaxEvents
    /\ loaded' = loaded \ {u}
    /\ load_events' = load_events + 1
    /\ Deliver([type |-> "UnitRemoved", name |-> u, path |-> PathOf(u)], unit_removed_match)
    /\ UNCHANGED <<mprops, clock>>
    /\ fired' = <<>>
    /\ notified' = <<>>
    /\ UNCHANGED <<settings, conn_bus, loop_once, set_up, last_fired,
                   unit_removed_match, unit_new_match, pc_match, pc, unit_names, cur, unit_states, result,
                   startup_calls, unit_calls>>
    /\ UNCHANGED usm_vars
    /\ UNCHANGED main_vars
    /\ UNCHANGED <<fn_call, watchers>>
    /\ last_signal' = Absent

\* A loaded unit changes state: the manager stamps the state's timestamp with
\* its clock, which has advanced, and emits PropertiesChanged.
mgr_change(u, state_str) ==
    /\ pc # "exited"
    /\ u \in loaded
    /\ state_str # mprops[u].ActiveState
    /\ clock < MaxClock
    /\ clock + load_events < MaxEvents
    /\ clock' = clock + 1
    /\ mprops' = [mprops EXCEPT ![u] =
                     [@ EXCEPT !.ActiveState = state_str,
                               ![ManagerTimestampProperty(state_str)] = clock + 1]]
    /\ Deliver([type |-> "PropertiesChanged",
                path |-> PathOf(u),
                interface |-> INTERFACE_FOR_SYSTEMD_UNIT,
                changed_properties |-> mprops'[u]],
               pc_match[PathOf(u)] > 0)
    /\ UNCHANGED <<loaded, load_events>>
    /\ fired' = <<>>
    /\ notified' = <<>>
    /\ UNCHANGED <<settings, conn_bus, loop_once, set_up, last_fired,
                   unit_removed_match, unit_new_match, pc_match, pc, unit_names, cur, unit_states, result,
                   startup_calls, unit_calls>>
    /\ UNCHANGED usm_vars
    /\ UNCHANGED main_vars
    /\ UNCHANGED <<fn_call, watchers>>
    /\ last_signal' = Absent

\* ---------------------------------------------------------------------------
\* The watcher (src/src/bus.rs).  pc is the call BusWatcher::run is about to
\* make; every blocking bus call is a step of its own, so that the manager can
\* act between two calls.

\* The start-up calls of BusWatcher::run, in program order; "units" is the
\* loop over the listed units.
run_steps_new_before_removed ==
    <<"call_manager_subscribe", "discard_name_acquired", "subscribe_manager_unit_new",
      "subscribe_manager_unit_removed", "call_manager_list_units", "units">>

\* BusWatcher::run, lines 130-155
run_steps ==
    <<"call_manager_subscribe", "discard_name_acquired", "subscribe_manager_unit_removed",
      "subscribe_manager_unit_new", "call_manager_list_units", "units">>

\* The calls made for one unit of interest, with the read before the filter.
unit_steps_read_first ==
    <<"call_properties_get_all", "subscribe_properties_changed", "upsert_unit_states">>

\* The calls made for one unit of interest, in program order (run, lines
\* 162-167, and handle_unit_new, lines 345-350).
unit_steps ==
    <<"subscribe_properties_changed", "call_properties_get_all", "upsert_unit_states">>

\* A bootstrap that leaves the loop over the listed units for the signal loop.
ReturnToLoop(ctx) ==
    "loop"

\* Where a handler goes back to: the loop over listed units or the signal loop.
ReturnTo(ctx) ==
    IF ctx = "boot" THEN "units" ELSE "loop"

\* The step after `step` in `steps`, or `last` after the last one.
StepAfter(steps, step, last) ==
    LET i == CHOOSE k \in DOMAIN steps : steps[k] = step
    IN  IF i < Len(steps) THEN steps[i + 1] ELSE last

Exit(res) ==
    /\ pc' = "exited"
    /\ result' = res

NoteCall(op) ==
    unit_calls' = Append(unit_calls,
                         [op |-> op, path |-> cur.path, filters |-> pc_match[cur.path],
                          ok |-> TRUE, ctx |-> cur.ctx])

\* The record of a call for the unit at hand that returned an error.
NoteFailedCall(op) ==
    unit_calls' = Append(unit_calls,
                         [op |-> op, path |-> cur.path, filters |-> pc_match[cur.path],
                          ok |-> FALSE, ctx |-> cur.ctx])

\* A start-up that goes on when Subscribe has failed.
call_manager_subscribe_unchecked ==
    /\ pc = "call_manager_subscribe"
    /\ \E ok \in BOOLEAN :
          /\ startup_calls' = Append(startup_calls, [op |-> "Subscribe", ok |-> ok])
          /\ IF ok
             THEN /\ pc' = StepAfter(run_steps, pc, "loop")
                  /\ UNCHANGED result
             ELSE /\ pc' = StepAfter(run_steps, pc, "loop")
                  /\ UNCHANGED result
    /\ fired' = <<>>
    /\ notified' = <<>>
    /\ UNCHANGED <<settings, conn_bus, loop_once, set_up, last_fired,
                   unit_removed_match, unit_new_match, pc_match, queue, unit_names, cur, unit_states,
                   unit_calls>>
    /\ UNCHANGED manager_vars
    /\ UNCHANGED usm_vars
    /\ UNCHANGED main_vars
    /\ UNCHANGED <<fn_call, watchers>>
    /\ last_signal' = Absent

\* self.call_manager_subscribe()?
call_manager_subscribe ==
    /\ pc = "call_manager_subscribe"
    /\ \E ok \in BOOLEAN :
          /\ startup_calls' = Append(startup_calls, [op |-> "Subscribe", ok |-> ok])
          /\ IF ok
             THEN /\ pc' = StepAfter(run_steps, pc, "loop")
                  /\ UNCHANGED result
             ELSE Exit("err")
    /\ fired' = <<>>
    /\ notified' = <<>>
    /\ UNCHANGED <<settings, conn_bus, loop_once, set_up, last_fired,
                   unit_removed_match, unit_new_match, pc_match, queue, unit_names, cur, unit_states,
                   unit_calls>>
    /\ UNCHANGED manager_vars
    /\ UNCHANGED usm_vars
    /\ UNCHANGED main_vars
    /\ UNCHANGED <<fn_call, watchers>>
    /\ last_signal' = Absent

\* self.connection.incoming(1000).next()
discard_name_acquired ==
    /\ pc = "discard_name_acquired"
    /\ startup_calls' = Append(startup_calls, [op |-> "Drain", ok |-> TRUE])
    /\ queue' = IF queue = <<>> THEN queue ELSE Tail(queue)
    /\ pc' = StepAfter(run_steps, pc, "loop")
    /\ fired' = <<>>
    /\ notified' = <<>>
    /\ UNCHANGED <<settings, conn_bus, loop_once, set_up, last_fired,
                   unit_removed_match, unit_new_match, pc_match, unit_names, cur, unit_states, result,
                   unit_calls>>
    /\ UNCHANGED manager_vars
    /\ UNCHANGED usm_vars
    /\ UNCHANGED main_vars
    /\ UNCHANGED <<fn_call, watchers>>
    /\ last_signal' = Absent

\* self.subscribe_manager_unit_removed()?
subscribe_manager_unit_removed ==
    /\ pc = "subscribe_manager_unit_removed"
    /\ \E ok \in BOOLEAN :
          /\ startup_calls' = Append(startup_calls, [op |-> "AddMatchUnitRemoved", ok |-> ok])
          /\ IF ok
             THEN /\ unit_removed_match' = TRUE
                  /\ pc' = StepAfter(run_steps, pc, "loop")
                  /\ UNCHANGED result
             ELSE /\ Exit("err")
                  /\ UNCHANGED unit_removed_match
    /\ fired' = <<>>
    /\ notified' = <<>>
    /\ UNCHANGED <<settings, conn_bus, loop_once, set_up, last_fired,
                   unit_new_match,
                   pc_match, queue, unit_names, cur, unit_states, unit_calls>>
    /\ UNCHANGED manager_vars
    /\ UNCHANGED usm_vars
    /\ UNCHANGED main_vars
    /\ UNCHANGED <<fn_call, watchers>>
    /\ last_signal' = Absent

\* self.subscribe_manager_unit_new()?
subscribe_manager_unit_new ==
    /\ pc = "subscribe_manager_unit_new"
    /\ \E ok \in BOOLEAN :
          /\ startup_calls' = Append(startup_calls, [op |-> "AddMatchUnitNew", ok |-> ok])
          /\ IF ok
             THEN /\ unit_new_match' = TRUE
                  /\ pc' = StepAfter(run_steps, pc, "loop")
                  /\ UNCHANGED result
             ELSE /\ Exit("err")
                  /\ UNCHANGED unit_new_match
    /\ fired' = <<>>
    /\ notified' = <<>>
    /\ UNCHANGED <<settings, conn_bus, loop_once, set_up, last_fired,
                   unit_removed_match,
                   pc_match, queue, unit_names, cur, unit_states, unit_calls>>
    /\ UNCHANGED manager_vars
    /\ UNCHANGED usm_vars
    /\ UNCHANGED main_vars
    /\ UNCHANGED <<fn_call, watchers>>
    /\ last_signal' = Absent

\* let unit_names = self.call_manager_list_units()?
call_manager_list_units ==
    /\ pc = "call_manager_list_units"
    /\ \E ok \in BOOLEAN :
          /\ startup_calls' = Append(startup_calls, [op |-> "ListUnits", ok |-> ok])
          /\ IF ok
             THEN /\ \E order \in Orderings(loaded) : unit_names' = order
                  /\ pc' = StepAfter(run_steps, pc, "loop")
                  /\ UNCHANGED result
             ELSE /\ Exit("err")
                  /\ UNCHANGED unit_names
    /\ fired' = <<>>
    /\ notified' = <<>>
    /\ UNCHANGED <<settings, conn_bus, loop_once, set_up, last_fired,
                   unit_removed_match, unit_new_match, pc_match, queue, cur, unit_states, unit_calls>>
    /\ UNCHANGED manager_vars
    /\ UNCHANGED usm_vars
    /\ UNCHANGED main_vars
    /\ UNCHANGED <<fn_call, watchers>>
    /\ last_signal' = Absent

\* for unit_name in unit_names { if rules_match_name(..) { call_manager_get_unit } }
\* An unloaded unit has no path; the call may also fail for a loaded one.
call_manager_get_unit ==
    /\ pc = "units"
    /\ IF unit_names = <<>>
       THEN /\ pc' = "loop"
            /\ UNCHANGED <<unit_names, cur, unit_calls>>
       ELSE LET unit_name == Head(unit_names)
            IN  /\ unit_names' = Tail(unit_names)
                /\ IF ~rules_match_name(settings.rules, unit_name)
                   THEN UNCHANGED <<pc, cur, unit_calls>>
                   ELSE \E ok \in (IF unit_name \in loaded THEN BOOLEAN ELSE {FALSE}) :
                           IF ok
                           THEN /\ cur' = [name |-> unit_name, path |-> PathOf(unit_name),
                                           props |-> Absent, ctx |-> "boot"]
                                /\ unit_calls' = <<[op |-> "GetUnit", path |-> PathOf(unit_name),
                                                    filters |-> pc_match[PathOf(unit_name)],
                                                    ok |-> TRUE, ctx |-> "boot"]>>
                                /\ pc' = unit_steps[1]
                           ELSE /\ unit_calls' = <<[op |-> "GetUnit", path |-> PathOf(unit_name),
                                                    filters |-> pc_match[PathOf(unit_name)],
                                                    ok |-> FALSE, ctx |-> "boot"]>>
                                /\ UNCHANGED <<pc, cur>>
    /\ fired' = <<>>
    /\ notified' = <<>>
    /\ UNCHANGED <<settings, conn_bus, loop_once, set_up, last_fired,
                   unit_removed_match, unit_new_match, pc_match, queue, unit_states, result, startup_calls>>
    /\ UNCHANGED manager_vars
    /\ UNCHANGED usm_vars
    /\ UNCHANGED main_vars
    /\ UNCHANGED <<fn_call, watchers>>
    /\ last_signal' = Absent

\* self.subscribe_properties_changed(&unit_path)?
subscribe_properties_changed ==
    /\ pc = "subscribe_properties_changed"
    /\ \E ok \in BOOLEAN :
          IF ok
          THEN /\ pc_match' = [pc_match EXCEPT ![cur.path] = @ + 1]
               /\ NoteCall("AddMatch")
               /\ pc' = StepAfter(unit_steps, pc, ReturnTo(cur.ctx))
               /\ UNCHANGED result
          ELSE /\ Exit("err")
               /\ NoteFailedCall("AddMatch")
               /\ UNCHANGED pc_match
    /\ fired' = <<>>
    /\ notified' = <<>>
    /\ UNCHANGED <<settings, conn_bus, loop_once, set_up, last_fired,
                   unit_removed_match, unit_new_match, queue, unit_names, cur, unit_states, startup_calls>>
    /\ UNCHANGED manager_vars
    /\ UNCHANGED usm_vars
    /\ UNCHANGED main_vars
    /\ UNCHANGED <<fn_call, watchers>>
    /\ last_signal' = Absent

\* A state of the manager's units that is none of the five the watcher knows.
RELOADING ==
    "reloading"

\* An interface of a unit object other than org.freedesktop.systemd1.Unit.
INTERFACE_FOR_SYSTEMD_SERVICE ==
    "org.freedesktop.systemd1.Service"

\* What a PropertiesChanged signal may name and carry besides a full state
\* change: another interface, a change without ActiveState, an ActiveState
\* without any timestamp.
SignalShapes ==
    {[interface |-> INTERFACE_FOR_SYSTEMD_SERVICE, keys |-> DOMAIN FreshProps],
     [interface |-> INTERFACE_FOR_SYSTEMD_UNIT, keys |-> DOMAIN FreshProps \ {"ActiveState"}],
     [interface |-> INTERFACE_FOR_SYSTEMD_UNIT, keys |-> {"ActiveState"}]}

\* A loaded unit starts reloading: ActiveState becomes "reloading", no
\* timestamp is stamped, and PropertiesChanged is emitted.
mgr_reload(u) ==
    /\ pc # "exited"
    /\ u \in loaded
    /\ mprops[u].ActiveState # RELOADING
    /\ mprops' = [mprops EXCEPT ![u] = [@ EXCEPT !.ActiveState = RELOADING]]
    /\ Deliver([type |-> "PropertiesChanged",
                path |-> PathOf(u),
                interface |-> INTERFACE_FOR_SYSTEMD_UNIT,
                changed_properties |-> mprops'[u]],
               pc_match[PathOf(u)] > 0)
    /\ UNCHANGED <<loaded, load_events, clock>>
    /\ fired' = <<>>
    /\ notified' = <<>>
    /\ UNCHANGED <<settings, conn_bus, loop_once, set_up, last_fired,
                   unit_removed_match, unit_new_match, pc_match, pc, unit_names, cur,
                   unit_states, result, startup_calls, unit_calls>>
    /\ UNCHANGED usm_vars
    /\ UNCHANGED main_vars
    /\ UNCHANGED <<fn_call, watchers>>
    /\ last_signal' = Absent

\* The object of a loaded unit emits a PropertiesChanged signal that is not a
\* full state change; the manager's state stays as it is.
mgr_emit(u, shape) ==
    /\ pc # "exited"
    /\ u \in loaded
    /\ pc_match[PathOf(u)] > 0
    /\ Deliver([type |-> "PropertiesChanged",
                path |-> PathOf(u),
                interface |-> shape.interface,
                changed_properties |-> [k \in shape.keys |-> mprops[u][k]]],
               TRUE)
    /\ UNCHANGED <<loaded, mprops, clock, load_events>>
    /\ fired' = <<>>
    /\ notified' = <<>>
    /\ UNCHANGED <<settings, conn_bus, loop_once, set_up, last_fired,
                   unit_removed_match, unit_new_match, pc_match, pc, unit_names, cur,
                   unit_states, result, startup_calls, unit_calls>>
    /\ UNCHANGED usm_vars
    /\ UNCHANGED main_vars
    /\ UNCHANGED <<fn_call, watchers>>
    /\ last_signal' = Absent

\* match self.call_properties_get_all(&unit_path) { Ok(..) => .., Err(_) => continue }
\* The reply is the unit's properties at the time of the call; the call fails
\* for an unloaded unit and may fail for a loaded one.
call_properties_get_all ==
    /\ pc = "call_properties_get_all"
    /\ \E ok \in (IF cur.name \in loaded THEN BOOLEAN ELSE {FALSE}) :
          IF ok
          THEN /\ cur' = [cur EXCEPT !.props = mprops[cur.name]]
               /\ NoteCall("GetAll")
               /\ pc' = StepAfter(unit_steps, pc, ReturnTo(cur.ctx))
          ELSE /\ cur' = NoCur
               /\ pc' = ReturnTo(cur.ctx)
               /\ NoteFailedCall("GetAll")
    /\ fired' = <<>>
    /\ notified' = <<>>
    /\ UNCHANGED <<settings, conn_bus, loop_once, set_up, last_fired,
                   unit_removed_match, unit_new_match, pc_match, queue, unit_names, unit_states, result,
                   startup_calls>>
    /\ UNCHANGED manager_vars
    /\ UNCHANGED usm_vars
    /\ UNCHANGED main_vars
    /\ UNCHANGED <<fn_call, watchers>>
    /\ last_signal' = Absent

\* The upsert both upsert_unit_states and handle_properties_changed end with:
\* the map entry is updated or created, and the on_change closure makes its
\* outbound calls.  A panic inside or_insert_with leaves the map without the
\* new entry; a panic inside and_modify leaves the updated machine behind.
UpsertAndNotify(unit_name, active_state, timestamp, next_pc) ==
    LET up == Upsert(unit_states, unit_name, active_state, timestamp)
        targets == CallTargets(settings, unit_name, up.calls)
    IN  \E outcome \in [1..Len(targets) -> SendOutcomes] :
           LET d == Dispatch(targets, outcome)
           IN  /\ fired' = [i \in 1..Len(up.calls) |->
                              [unit_name |-> unit_name,
                               seen |-> up.calls[i].seen,
                               old_state |-> up.calls[i].old_state]]
               /\ notified' = d.sent
               /\ IF d.panicked
                  THEN /\ Exit("panic")
                       /\ unit_states' = IF up.created THEN unit_states ELSE up.states
                  ELSE /\ pc' = next_pc
                       /\ unit_states' = up.states
                       /\ UNCHANGED result

\* last_signal is the PropertiesChanged signal that handle_properties_changed
\* has just handled, Absent after any other step.
\* last_fired records, per unit name, the timestamp of the state machine in
\* the latest on_change call made for it (-1 before the first).
NoteFired ==
    last_fired' = IF fired' = <<>>
                  THEN last_fired
                  ELSE [last_fired EXCEPT ![fired'[Len(fired')].unit_name] =
                                              fired'[Len(fired')].seen.mono_ts]

\* Whether a property map decodes: ActiveState is there and canonical, and
\* the timestamp of that state is there.
PropsDecode(props) ==
    /\ "ActiveState" \in DOMAIN props
    /\ ActiveStateTryFrom(props.ActiveState) \in ActiveState
    /\ get_timestamp_key(ActiveStateTryFrom(props.ActiveState)) \in DOMAIN props

\* self.upsert_unit_states(&unit_name, &unit_props, &mut unit_states)
\* set_up records the units whose filter, read and upsert have all succeeded.
upsert_unit_states ==
    /\ pc = "upsert_unit_states"
    /\ IF ~PropsDecode(cur.props)
       THEN /\ Exit("panic")
            /\ fired' = <<>>
            /\ notified' = <<>>
            /\ UNCHANGED unit_states
       ELSE LET active_state == ActiveStateTryFrom(cur.props.ActiveState)
                timestamp == cur.props[get_timestamp_key(active_state)]
            IN  UpsertAndNotify(cur.name, active_state, timestamp,
                                StepAfter(unit_steps, pc, ReturnTo(cur.ctx)))
    /\ NoteCall("Upsert")
    /\ NoteFired
    /\ set_up' = IF pc' = "exited" THEN set_up ELSE set_up \cup {cur.name}
    /\ UNCHANGED cur
    /\ UNCHANGED <<settings, conn_bus, loop_once, unit_removed_match, unit_new_match,
                   pc_match, queue, unit_names, startup_calls>>
    /\ UNCHANGED manager_vars
    /\ UNCHANGED usm_vars
    /\ UNCHANGED main_vars
    /\ UNCHANGED <<fn_call, watchers>>
    /\ last_signal' = Absent

\* BusWatcher::handle_unit_new, up to the first bus call
handle_unit_new ==
    /\ pc = "loop"
    /\ queue # <<>>
    /\ Head(queue).type = "UnitNew"
    /\ queue' = Tail(queue)
    /\ LET unit_name == Head(queue).name
           unit_path == Head(queue).path
       IN  IF rules_match_name(settings.rules, unit_name)
           THEN /\ cur' = [name |-> unit_name, path |-> unit_path,
                           props |-> Absent, ctx |-> "new"]
                /\ pc' = unit_steps[1]
           ELSE /\ cur' = NoCur
                /\ UNCHANGED pc
    /\ unit_calls' = <<>>
    /\ fired' = <<>>
    /\ notified' = <<>>
    /\ UNCHANGED <<settings, conn_bus, loop_once, set_up, last_fired,
                   unit_removed_match, unit_new_match, pc_match, unit_names, unit_states, result,
                   startup_calls>>
    /\ UNCHANGED manager_vars
    /\ UNCHANGED usm_vars
    /\ UNCHANGED main_vars
    /\ UNCHANGED <<fn_call, watchers>>
    /\ last_signal' = Absent

\* BusWatcher::handle_unit_removed.  The bus daemon refuses to remove a match
\* rule the connection does not hold, and the handler panics on any error.
handle_unit_removed ==
    /\ pc = "loop"
    /\ queue # <<>>
    /\ Head(queue).type = "UnitRemoved"
    /\ queue' = Tail(queue)
    /\ LET unit_name == Head(queue).name
           unit_path == Head(queue).path
       IN  IF rules_match_name(settings.rules, unit_name)
           THEN \E ok \in (IF pc_match[unit_path] > 0 THEN BOOLEAN ELSE {FALSE}) :
                   IF ok
                   THEN /\ pc_match' = [pc_match EXCEPT ![unit_path] = @ - 1]
                        /\ unit_states' = forget_unit_state(unit_name, unit_states)
                        /\ UNCHANGED <<pc, result>>
                   ELSE /\ Exit("panic")
                        /\ UNCHANGED <<pc_match, unit_states>>
           ELSE UNCHANGED <<pc, result, pc_match, unit_states>>
    /\ cur' = NoCur
    /\ unit_calls' = IF rules_match_name(settings.rules, Head(queue).name)
                     THEN <<[op |-> "RemoveMatch",
                             path |-> Head(queue).path,
                             filters |-> pc_match[Head(queue).path],
                             had_entry |-> Head(queue).name \in DOMAIN unit_states]>>
                     ELSE <<>>
    /\ fired' = <<>>
    /\ notified' = <<>>
    /\ UNCHANGED <<settings, conn_bus, loop_once, set_up, last_fired,
                   unit_removed_match, unit_new_match, unit_names, startup_calls>>
    /\ UNCHANGED manager_vars
    /\ UNCHANGED usm_vars
    /\ UNCHANGED main_vars
    /\ UNCHANGED <<fn_call, watchers>>
    /\ last_signal' = Absent

\* A handler that looks at ActiveState whatever interface the signal names.
PropertiesChangedIgnoredAnyInterface(msg) ==
    "ActiveState" \notin DOMAIN msg.changed_properties

\* A handler that also lets a state change without its timestamp pass.
PropertiesChangedIgnoredWithoutTimestamp(msg) ==
    \/ msg.interface # INTERFACE_FOR_SYSTEMD_UNIT
    \/ "ActiveState" \notin DOMAIN msg.changed_properties
    \/ /\ ActiveStateTryFrom(msg.changed_properties.ActiveState) \in ActiveState
       /\ get_timestamp_key(ActiveStateTryFrom(msg.changed_properties.ActiveState))
             \notin DOMAIN msg.changed_properties

\* A handler that also passes over signals of units it has no entry for.
PropertiesChangedIgnoredUntracked(msg) ==
    \/ msg.interface # INTERFACE_FOR_SYSTEMD_UNIT
    \/ "ActiveState" \notin DOMAIN msg.changed_properties
    \/ IdOfPath(msg.path) \notin DOMAIN unit_states

\* if msg_body.interface != INTERFACE_FOR_SYSTEMD_UNIT { return Ok(()) } and
\* match msg_body.changed_properties.get("ActiveState") { .. None => return Ok(()) }
PropertiesChangedIgnored(msg) ==
    \/ msg.interface # INTERFACE_FOR_SYSTEMD_UNIT
    \/ "ActiveState" \notin DOMAIN msg.changed_properties

\* BusWatcher::handle_properties_changed.  The unit name comes from a Get of
\* the Id property at the signal's path, which may fail; unit_calls records
\* that call.
handle_properties_changed ==
    /\ pc = "loop"
    /\ queue # <<>>
    /\ Head(queue).type = "PropertiesChanged"
    /\ queue' = Tail(queue)
    /\ LET msg == Head(queue)
           changed == msg.changed_properties
       IN  IF PropertiesChangedIgnored(msg)
           THEN /\ fired' = <<>>
                /\ notified' = <<>>
                /\ unit_calls' = <<>>
                /\ UNCHANGED <<pc, result, unit_states>>
           ELSE IF ~PropsDecode(changed)
           THEN /\ Exit("err")
                /\ fired' = <<>>
                /\ notified' = <<>>
                /\ unit_calls' = <<>>
                /\ UNCHANGED unit_states
           ELSE LET active_state == ActiveStateTryFrom(changed.ActiveState)
                    timestamp == changed[get_timestamp_key(active_state)]
                IN  /\ unit_calls' = <<[op |-> "GetId", path |-> msg.path,
                                        filters |-> pc_match[msg.path]]>>
                    /\ \E ok \in BOOLEAN :
                          IF ok
                          THEN UpsertAndNotify(IdOfPath(msg.path), active_state, timestamp, pc)
                          ELSE /\ Exit("err")
                               /\ fired' = <<>>
                               /\ notified' = <<>>
                               /\ UNCHANGED unit_states
    /\ NoteFired
    /\ cur' = NoCur
    /\ UNCHANGED <<settings, conn_bus, loop_once, set_up, unit_removed_match,
                   unit_new_match, pc_match, unit_names, startup_calls>>
    /\ UNCHANGED manager_vars
    /\ UNCHANGED usm_vars
    /\ UNCHANGED main_vars
    /\ UNCHANGED <<fn_call, watchers>>
    /\ last_signal' = Head(queue)

\* A loop that returns after a drain pass whatever loop_once is.
loop_once_return_unconditional ==
    /\ pc = "loop"
    /\ queue = <<>>
    /\ Exit("ok")
    /\ fired' = <<>>
    /\ notified' = <<>>
    /\ UNCHANGED <<settings, conn_bus, loop_once, set_up, last_fired,
                   unit_removed_match, unit_new_match, pc_match, queue, unit_names, cur, unit_states,
                   startup_calls, unit_calls>>
    /\ UNCHANGED manager_vars
    /\ UNCHANGED usm_vars
    /\ UNCHANGED main_vars
    /\ UNCHANGED <<fn_call, watchers>>
    /\ last_signal' = Absent

\* if self.loop_once { return Ok(()) }, once incoming() has run dry
loop_once_return ==
    /\ pc = "loop"
    /\ queue = <<>>
    /\ loop_once
    /\ Exit("ok")
    /\ fired' = <<>>
    /\ notified' = <<>>
    /\ UNCHANGED <<settings, conn_bus, loop_once, set_up, last_fired,
                   unit_removed_match, unit_new_match, pc_match, queue, unit_names, cur, unit_states,
                   startup_calls, unit_calls>>
    /\ UNCHANGED manager_vars
    /\ UNCHANGED usm_vars
    /\ UNCHANGED main_vars
    /\ UNCHANGED <<fn_call, watchers>>
    /\ last_signal' = Absent

\* ---------------------------------------------------------------------------
\* The supervisor (src/src/main.rs, handle_no_subcommand) and its worker
\* threads.  A worker is BusWatcher::new(bus_type, ..).run(); what run does on
\* its bus is modelled above, here only how far it got and how it ended.

BusTypes ==
    {"Session", "System"}

\* How a worker thread can have ended: run returned Ok(()), run returned an
\* error, or the thread panicked.
WorkerDone ==
    {"ok", "err", "panicked"}

\* The supervisor of a watcher that is looked at on its own never starts.
MainIdle ==
    /\ bus_types = <<>>
    /\ handles = <<>>
    /\ workers = [b \in BusTypes |-> "unspawned"]
    /\ handled = [b \in BusTypes |-> 0]
    /\ joined = 0
    /\ exit_code = 0
    /\ main_pc = "exited"

\* A join that unwraps: the supervisor itself panics on a panicked worker.
JoinUnwrap(worker, code) ==
    [exit_code |-> code, main_panicked |-> worker = "panicked"]

\* match handle.join() { Err(err) => eprintln!(..),
\*                       Ok(result) => if result.is_err() { exit_code = 1 } }
Join(worker, code) ==
    [exit_code |-> IF worker = "err" THEN 1 ELSE code, main_panicked |-> FALSE]

\* thread::spawn(move || BusWatcher::new(bus_type, ..).run()), once per
\* element of get_bus_types; .collect() ends the spawning.
spawn ==
    /\ main_pc = "spawn"
    /\ IF Len(handles) < Len(bus_types)
       THEN LET bus_type == bus_types[Len(handles) + 1]
            IN  /\ handles' = Append(handles, bus_type)
                /\ workers' = [workers EXCEPT ![bus_type] = "spawned"]
                /\ UNCHANGED main_pc
       ELSE /\ main_pc' = "join"
            /\ UNCHANGED <<handles, workers>>
    /\ UNCHANGED <<bus_types, handled, joined, exit_code>>

\* for handle in handles { match handle.join() { .. } }: join blocks until
\* the thread has ended.  A panic of the main thread ends the process, and
\* every thread with it, with status 101.
join ==
    /\ main_pc = "join"
    /\ IF joined < Len(handles)
       THEN LET worker == workers[handles[joined + 1]]
                joining == Join(worker, exit_code)
            IN  /\ worker \in WorkerDone
                /\ IF joining.main_panicked
                   THEN /\ main_pc' = "exited"
                        /\ exit_code' = 101
                        /\ workers' = [b \in BusTypes |->
                                         IF workers[b] \in {"spawned", "running"}
                                         THEN "killed" ELSE workers[b]]
                        /\ UNCHANGED joined
                   ELSE /\ exit_code' = joining.exit_code
                        /\ joined' = joined + 1
                        /\ UNCHANGED <<main_pc, workers>>
       ELSE /\ main_pc' = "exit"
            /\ UNCHANGED <<joined, exit_code, workers>>
    /\ UNCHANGED <<bus_types, handles, handled>>

\* process::exit(exit_code)
process_exit ==
    /\ main_pc = "exit"
    /\ main_pc' = "exited"
    /\ UNCHANGED <<bus_types, handles, workers, handled, joined, exit_code>>

\* BusWatcher::new in the worker thread: Connection::get_private(bus_type)
\* .expect(..) connects or panics.
worker_new(bus_type) ==
    /\ main_pc # "exited"
    /\ workers[bus_type] = "spawned"
    /\ \E connected \in BOOLEAN :
          workers' = [workers EXCEPT ![bus_type] =
                         IF connected THEN "running" ELSE "panicked"]
    /\ UNCHANGED <<bus_types, handles, handled, joined, exit_code, main_pc>>

\* BusWatcher::run in the worker thread handles one more message of its bus.
worker_handle(bus_type) ==
    /\ main_pc # "exited"
    /\ workers[bus_type] = "running"
    /\ handled[bus_type] < MaxHandled
    /\ handled' = [handled EXCEPT ![bus_type] = @ + 1]
    /\ UNCHANGED <<bus_types, handles, workers, joined, exit_code, main_pc>>

\* BusWatcher::run ends: with Ok(()), which it returns only under loop_once,
\* with an error, or with a panic.
worker_return(bus_type) ==
    /\ main_pc # "exited"
    /\ workers[bus_type] = "running"
    /\ \E res \in WorkerDone :
          /\ res = "ok" => loop_once
          /\ workers' = [workers EXCEPT ![bus_type] = res]
    /\ UNCHANGED <<bus_types, handles, handled, joined, exit_code, main_pc>>

\* ---------------------------------------------------------------------------
\* Specifications.

\* BusWatcher::new and the state of the bus when run is called: the connection
\* holds the NameAcquired signal and no match rule, and the manager has its
\* units loaded, none of which ever ran.
WatcherInit ==
    /\ settings \in SettingsChoices
    /\ conn_bus \in get_bus_types(settings.rules) \cap WatchedBuses
    /\ loop_once \in BOOLEAN
    /\ loaded = Units
    /\ mprops = [u \in Units |-> FreshProps]
    /\ clock = 0
    /\ load_events = 0
    /\ unit_removed_match = FALSE
    /\ unit_new_match = FALSE
    /\ pc_match = [p \in {PathOf(u) : u \in Units} |-> 0]
    /\ queue = <<[type |-> "NameAcquired"]>>
    /\ pc = run_steps[1]
    /\ unit_names = <<>>
    /\ cur = NoCur
    /\ unit_states = <<>>
    /\ result = None
    /\ startup_calls = <<>>
    /\ unit_calls = <<>>
    /\ set_up = {}
    /\ last_fired = [u \in Units |-> -1]
    /\ last_signal = Absent
    /\ fired = <<>>
    /\ notified = <<>>

\* The watcher as the service runs it: loop_once is false.
Init ==
    /\ WatcherInit
    /\ loop_once = FALSE
    /\ UsmInit
    /\ fn_call = Absent
    /\ watchers = Absent
    /\ MainIdle

Next ==
    \/ \E u \in Units : mgr_load(u)
    \/ \E u \in Units : mgr_unload(u)
    \/ \E u \in Units, state_str \in ManagerStates : mgr_change(u, state_str)
    \/ call_manager_subscribe
    \/ discard_name_acquired
    \/ subscribe_manager_unit_removed
    \/ subscribe_manager_unit_new
    \/ call_manager_list_units
    \/ call_manager_get_unit
    \/ subscribe_properties_changed
    \/ call_properties_get_all
    \/ upsert_unit_states
    \/ handle_unit_new
    \/ handle_unit_removed
    \/ handle_properties_changed

\* One watcher on one bus, with the manager acting at any time.
Spec ==
    Init /\ [][Next]_vars

\* The watcher with loop_once set or not, as BusWatcher::new takes it, under
\* either configuration; the manager loads, unloads and changes foo.service.
LoopOnceInit ==
    /\ WatcherInit
    /\ UsmInit
    /\ fn_call = Absent
    /\ watchers = Absent
    /\ MainIdle

LoopOnceNext ==
    \/ mgr_load(FooService)
    \/ mgr_unload(FooService)
    \/ \E state_str \in ManagerStates : mgr_change(FooService, state_str)
    \/ call_manager_subscribe
    \/ discard_name_acquired
    \/ subscribe_manager_unit_removed
    \/ subscribe_manager_unit_new
    \/ call_manager_list_units
    \/ call_manager_get_unit
    \/ subscribe_properties_changed
    \/ call_properties_get_all
    \/ upsert_unit_states
    \/ handle_unit_new
    \/ handle_unit_removed
    \/ handle_properties_changed
    \/ loop_once_return

LoopOnceSpec ==
    LoopOnceInit /\ [][LoopOnceNext]_vars

\* The watcher in production mode (loop_once is false) on the session bus,
\* watching foo.service, which is loaded from the start or gets loaded later
\* and is never unloaded.  The manager also lets the unit reload, and the
\* unit's object also emits signals about other interfaces and partial changes.
SignalWatcherInit ==
    /\ settings = [notifiers |-> Notifiers, rules |-> <<RuleSession>>]
    /\ conn_bus = "Session"
    /\ loop_once = FALSE
    /\ loaded \in {Units \ {FooService}, Units}
    /\ mprops = [u \in Units |-> FreshProps]
    /\ clock = 0
    /\ load_events = 0
    /\ unit_removed_match = FALSE
    /\ unit_new_match = FALSE
    /\ pc_match = [p \in {PathOf(u) : u \in Units} |-> 0]
    /\ queue = <<[type |-> "NameAcquired"]>>
    /\ pc = run_steps[1]
    /\ unit_names = <<>>
    /\ cur = NoCur
    /\ unit_states = <<>>
    /\ result = None
    /\ startup_calls = <<>>
    /\ unit_calls = <<>>
    /\ set_up = {}
    /\ last_fired = [u \in Units |-> -1]
    /\ last_signal = Absent
    /\ fired = <<>>
    /\ notified = <<>>

SignalInit ==
    /\ SignalWatcherInit
    /\ UsmInit
    /\ fn_call = Absent
    /\ watchers = Absent
    /\ MainIdle

SignalNext ==
    \/ mgr_load(FooService)
    \/ \E state_str \in ManagerStates : mgr_change(FooService, state_str)
    \/ mgr_reload(FooService)
    \/ \E shape \in SignalShapes : mgr_emit(FooService, shape)
    \/ call_manager_subscribe
    \/ discard_name_acquired
    \/ subscribe_manager_unit_removed
    \/ subscribe_manager_unit_new
    \/ call_manager_list_units
    \/ call_manager_get_unit
    \/ subscribe_properties_changed
    \/ call_properties_get_all
    \/ upsert_unit_states
    \/ handle_unit_new
    \/ handle_properties_changed

SignalSpec ==
    SignalInit /\ [][SignalNext]_vars

\* The same watcher with a manager that loads and unloads foo.service, which
\* is loaded at the start or not.
ReloadNext ==
    \/ mgr_load(FooService)
    \/ mgr_unload(FooService)
    \/ \E state_str \in ManagerStates : mgr_change(FooService, state_str)
    \/ call_manager_subscribe
    \/ discard_name_acquired
    \/ subscribe_manager_unit_removed
    \/ subscribe_manager_unit_new
    \/ call_manager_list_units
    \/ call_manager_get_unit
    \/ subscribe_properties_changed
    \/ call_properties_get_all
    \/ upsert_unit_states
    \/ handle_unit_new
    \/ handle_unit_removed
    \/ handle_properties_changed

ReloadSpec ==
    SignalInit /\ [][ReloadNext]_vars

\* What join gets from the thread of a watcher whose run ended with res.
ThreadOutcome(res) ==
    CASE res = "ok" -> "ok"
      [] res = "err" -> "err"
      [] res = "panic" -> "panicked"

\* The thread of the watcher ends when run has returned or panicked.
watcher_thread_end ==
    /\ pc = "exited"
    /\ main_pc # "exited"
    /\ workers[conn_bus] = "running"
    /\ workers' = [workers EXCEPT ![conn_bus] = ThreadOutcome(result)]
    /\ UNCHANGED <<bus_types, handles, handled, joined, exit_code, main_pc>>
    /\ UNCHANGED <<usm_vars, manager_vars, watcher_vars, fn_call, watchers>>

\* handle_no_subcommand with rules of the session bus alone, once it has
\* spawned its one thread and BusWatcher::new has connected.
ProcessInit ==
    /\ SignalWatcherInit
    /\ UsmInit
    /\ fn_call = Absent
    /\ watchers = Absent
    /\ bus_types = <<"Session">>
    /\ handles = <<"Session">>
    /\ workers = [b \in BusTypes |-> IF b = "Session" THEN "running" ELSE "unspawned"]
    /\ handled = [b \in BusTypes |-> 0]
    /\ joined = 0
    /\ exit_code = 0
    /\ main_pc = "join"

ProcessNext ==
    \/ mgr_load(FooService)
    \/ mgr_unload(FooService)
    \/ \E state_str \in ManagerStates : mgr_change(FooService, state_str)
    \/ call_manager_subscribe
    \/ discard_name_acquired
    \/ subscribe_manager_unit_removed
    \/ subscribe_manager_unit_new
    \/ call_manager_list_units
    \/ call_manager_get_unit
    \/ subscribe_properties_changed
    \/ call_properties_get_all
    \/ upsert_unit_states
    \/ handle_unit_new
    \/ handle_unit_removed
    \/ handle_properties_changed
    \/ watcher_thread_end
    \/ join /\ UNCHANGED <<usm_vars, manager_vars, watcher_vars, fn_call, watchers>>
    \/ process_exit /\ UNCHANGED <<usm_vars, manager_vars, watcher_vars, fn_call, watchers>>

\* The process: the supervisor and the watcher of its one bus.
ProcessSpec ==
    ProcessInit /\ [][ProcessNext]_vars

\* The watcher of the lone state machine never starts.
UsmIdleWatcher ==
    /\ settings = CHOOSE st \in SettingsChoices : Len(st.rules) = 1
    /\ conn_bus = "Session"
    /\ loop_once = FALSE
    /\ loaded = {}
    /\ mprops = [u \in Units |-> FreshProps]
    /\ clock = 0
    /\ load_events = 0
    /\ unit_removed_match = FALSE
    /\ unit_new_match = FALSE
    /\ pc_match = [p \in {PathOf(u) : u \in Units} |-> 0]
    /\ queue = <<>>
    /\ pc = "exited"
    /\ unit_names = <<>>
    /\ cur = NoCur
    /\ unit_states = <<>>
    /\ result = None
    /\ startup_calls = <<>>
    /\ unit_calls = <<>>
    /\ set_up = {}
    /\ last_fired = [u \in Units |-> -1]
    /\ last_signal = Absent
    /\ fired = <<>>
    /\ notified = <<>>

UsmSpecInit ==
    /\ UsmInit
    /\ fn_call = Absent
    /\ watchers = Absent
    /\ UsmIdleWatcher
    /\ MainIdle

UsmNext ==
    \/ \E active_state \in ActiveState, mono_ts \in 0..MaxTs :
          /\ usm_new(active_state, mono_ts)
          /\ UNCHANGED manager_vars
          /\ UNCHANGED watcher_vars
          /\ UNCHANGED main_vars
          /\ UNCHANGED <<fn_call, watchers>>
    \/ \E active_state \in ActiveState, mono_ts \in 0..MaxTs :
          /\ usm_update(active_state, mono_ts)
          /\ UNCHANGED manager_vars
          /\ UNCHANGED watcher_vars
          /\ UNCHANGED main_vars
          /\ UNCHANGED <<fn_call, watchers>>

\* One unit state machine: a create, then updates with arbitrary arguments.
UsmSpec ==
    UsmSpecInit /\ [][UsmNext]_vars

\* The configurations the supervisor is run with: those of the watcher, one
\* without rules, one whose two rules name the same bus, one of the system
\* bus alone.
MainSettings ==
    SettingsChoices \cup
    {[notifiers |-> Notifiers, rules |-> <<>>],
     [notifiers |-> Notifiers, rules |-> <<RuleSession, RuleSession>>],
     [notifiers |-> Notifiers, rules |-> <<RuleSystem>>]}

\* The watchers of the supervised workers are not looked into.
MainIdleWatcher ==
    /\ settings \in MainSettings
    /\ conn_bus = "Session"
    /\ loop_once \in BOOLEAN
    /\ loaded = {}
    /\ mprops = [u \in Units |-> FreshProps]
    /\ clock = 0
    /\ load_events = 0
    /\ unit_removed_match = FALSE
    /\ unit_new_match = FALSE
    /\ pc_match = [p \in {PathOf(u) : u \in Units} |-> 0]
    /\ queue = <<>>
    /\ pc = "exited"
    /\ unit_names = <<>>
    /\ cur = NoCur
    /\ unit_states = <<>>
    /\ result = None
    /\ startup_calls = <<>>
    /\ unit_calls = <<>>
    /\ set_up = {}
    /\ last_fired = [u \in Units |-> -1]
    /\ last_signal = Absent
    /\ fired = <<>>
    /\ notified = <<>>

\* handle_no_subcommand up to the spawning: the settings are read and
\* get_bus_types lists the buses of the rules, in the order of a HashSet.
MainInit ==
    /\ MainIdleWatcher
    /\ UsmInit
    /\ fn_call = Absent
    /\ watchers = Absent
    /\ bus_types \in Orderings(get_bus_types(settings.rules))
    /\ handles = <<>>
    /\ workers = [b \in BusTypes |-> "unspawned"]
    /\ handled = [b \in BusTypes |-> 0]
    /\ joined = 0
    /\ exit_code = 0
    /\ main_pc = "spawn"

MainNext ==
    \/ spawn /\ UNCHANGED <<usm_vars, manager_vars, watcher_vars, fn_call, watchers>>
    \/ join /\ UNCHANGED <<usm_vars, manager_vars, watcher_vars, fn_call, watchers>>
    \/ process_exit /\ UNCHANGED <<usm_vars, manager_vars, watcher_vars, fn_call, watchers>>
    \/ \E bus_type \in BusTypes :
          worker_new(bus_type) /\ UNCHANGED <<usm_vars, manager_vars, watcher_vars, fn_call, watchers>>
    \/ \E bus_type \in BusTypes :
          worker_handle(bus_type) /\ UNCHANGED <<usm_vars, manager_vars, watcher_vars, fn_call, watchers>>
    \/ \E bus_type \in BusTypes :
          worker_return(bus_type) /\ UNCHANGED <<usm_vars, manager_vars, watcher_vars, fn_call, watchers>>

\* The supervisor and one worker thread per bus of the rules.
MainSpec ==
    MainInit /\ [][MainNext]_vars

\* ---------------------------------------------------------------------------
\* The on_change closure on its own: gen_on_change's closure called with
\* arbitrary arguments under configurations with several rules per unit and
\* several notifiers per rule.

\* A rule with two notifiers.
RuleTwoNotifiers ==
    [active_states |-> {"Failed"},
     bus_type |-> "Session",
     expression |-> [kind |-> "UnitName", expr |-> FooService],
     notifiers |-> <<"r", "q">>]

\* A rule that matches the same unit as RuleTwoNotifiers and names the same
\* notifiers, in the other order.
RuleServices ==
    [active_states |-> {"Failed", "Active"},
     bus_type |-> "Session",
     expression |-> [kind |-> "UnitType", expr |-> <<".", "s">>],
     notifiers |-> <<"q", "r">>]

\* The configurations the closure is called under.
DispatchSettings ==
    SettingsChoices \cup
    {[notifiers |-> Notifiers, rules |-> <<RuleTwoNotifiers, RuleServices, RuleSystem>>]}

\* on_change(&usm, old_state), as UnitStateMachine::new and update call it: the
\* closure makes its outbound calls, and a panic inside it ends the thread.
on_change(unit_name, seen, old_state) ==
    /\ pc = "on_change"
    /\ LET call == [seen |-> seen, old_state |-> old_state]
           targets == gen_on_change(settings, unit_name, call)
       IN  \E outcome \in [1..Len(targets) -> SendOutcomes] :
              LET d == Dispatch(targets, outcome)
              IN  /\ fired' = <<[unit_name |-> unit_name,
                                 seen |-> seen,
                                 old_state |-> old_state]>>
                  /\ notified' = d.sent
                  /\ IF d.panicked
                     THEN Exit("panic")
                     ELSE /\ result' = "ok"
                          /\ UNCHANGED pc
    /\ UNCHANGED <<settings, conn_bus, loop_once, set_up, last_fired,
                   unit_removed_match, unit_new_match, pc_match, queue, unit_names,
                   cur, unit_states, startup_calls, unit_calls>>
    /\ UNCHANGED manager_vars
    /\ UNCHANGED usm_vars
    /\ UNCHANGED main_vars
    /\ UNCHANGED <<fn_call, watchers>>
    /\ last_signal' = Absent

\* A watcher about to call the closure, with nothing else going on.
DispatchInit ==
    /\ settings \in DispatchSettings
    /\ conn_bus = "Session"
    /\ loop_once = FALSE
    /\ loaded = Units
    /\ mprops = [u \in Units |-> FreshProps]
    /\ clock = 0
    /\ load_events = 0
    /\ unit_removed_match = FALSE
    /\ unit_new_match = FALSE
    /\ pc_match = [p \in {PathOf(u) : u \in Units} |-> 0]
    /\ queue = <<>>
    /\ pc = "on_change"
    /\ unit_names = <<>>
    /\ cur = NoCur
    /\ unit_states = <<>>
    /\ result = None
    /\ startup_calls = <<>>
    /\ unit_calls = <<>>
    /\ set_up = {}
    /\ last_fired = [u \in Units |-> -1]
    /\ last_signal = Absent
    /\ fired = <<>>
    /\ notified = <<>>
    /\ UsmInit
    /\ fn_call = Absent
    /\ watchers = Absent
    /\ MainIdle

DispatchNext ==
    \E unit_name \in Units, active_state \in ActiveState, mono_ts \in {0, MaxTs},
       old_state \in ActiveState \cup {None} :
       /\ old_state # active_state
       /\ on_change(unit_name, UnitStateMachine(active_state, mono_ts), old_state)

\* The closure called again and again with arbitrary arguments.
DispatchSpec ==
    DispatchInit /\ [][DispatchNext]_vars

\* ---------------------------------------------------------------------------
\* The pure functions on their own, called with arbitrary arguments as the
\* unit tests of src/src/unit.rs and src/src/bus.rs call them.  fn_call is the
\* last call made: the function, its arguments and what it returned.

\* All sequences over chars of length at most n.
SeqsUpTo(chars, n) ==
    UNION {[1..k -> chars] : k \in 0..n}

\* The strings handed to ActiveState::try_from: the five the manager uses and
\* some it does not.
TryFromInputs ==
    {"activating", "active", "deactivating", "failed", "inactive",
     "reloading", "Active", "ACTIVE", "", "in-active"}

\* The bus names BusName::new accepts, up to MaxLen characters, and the
\* addresses of the notifiers of the configurations modelled.
BusNames ==
    {bus_name \in SeqsUpTo({"n", "-", "."}, MaxLen) : bus_name # <<>> /\ ValidBusName(bus_name)}
    \cup {Notifiers[label].bus_name : label \in DOMAIN Notifiers}

\* The rule lists handed to the rule filters: any order, with repetitions.
RuleLists ==
    SeqsUpTo({RuleSession, RuleSystem, RuleServices}, MaxRules)

\* The unit names handed to the rule filters: the units, a name shorter than
\* a unit type, and a name that has a unit type at its start.
FilterNames ==
    Units \cup {<<"s">>, <<".", "s", ".", "m", "x">>}

\* No variable but fn_call changes.
PureFrame ==
    /\ UNCHANGED watchers
    /\ UNCHANGED usm_vars
    /\ UNCHANGED manager_vars
    /\ UNCHANGED watcher_vars
    /\ UNCHANGED main_vars

\* ActiveState::try_from(value)
call_try_from(value) ==
    /\ fn_call' = [fn |-> "try_from", arg |-> value, ret |-> ActiveStateTryFrom(value)]
    /\ PureFrame

\* String::from(value)
call_string_from(value) ==
    /\ fn_call' = [fn |-> "string_from", arg |-> value, ret |-> StringFromActiveState(value)]
    /\ PureFrame

\* ActiveState::try_from(&String::from(value)[..])
call_decode_encode(value) ==
    /\ fn_call' = [fn |-> "decode_encode",
                   arg |-> value,
                   ret |-> ActiveStateTryFrom(StringFromActiveState(value))]
    /\ PureFrame

\* String::from(ActiveState::try_from(value).unwrap()), for the strings try_from
\* accepts
call_encode_decode(value) ==
    /\ ActiveStateTryFrom(value) \in ActiveState
    /\ fn_call' = [fn |-> "encode_decode",
                   arg |-> value,
                   ret |-> StringFromActiveState(ActiveStateTryFrom(value))]
    /\ PureFrame

\* get_timestamp_key(active_state), as upsert_unit_states and
\* handle_properties_changed call it
call_get_timestamp_key(active_state) ==
    /\ fn_call' = [fn |-> "get_timestamp_key",
                   arg |-> active_state,
                   ret |-> get_timestamp_key(active_state)]
    /\ PureFrame

\* get_monotonic_timestamp_key(active_state)
call_get_monotonic_timestamp_key(active_state) ==
    /\ fn_call' = [fn |-> "get_monotonic_timestamp_key",
                   arg |-> active_state,
                   ret |-> get_monotonic_timestamp_key(active_state)]
    /\ PureFrame

\* make_path_like_bus_name(&bus_name)
call_make_path_like_bus_name(bus_name) ==
    /\ fn_call' = [fn |-> "make_path_like_bus_name",
                   arg |-> bus_name,
                   ret |-> make_path_like_bus_name(bus_name),
                   panicked |-> make_path_like_bus_name(bus_name) = NoPath]
    /\ PureFrame

\* get_rules_matching_name(&rules, unit_name)
call_get_rules_matching_name(rules, unit_name) ==
    /\ fn_call' = [fn |-> "get_rules_matching_name",
                   rules |-> rules,
                   unit_name |-> unit_name,
                   ret |-> get_rules_matching_name(rules, unit_name)]
    /\ PureFrame

\* get_rules_matching_active_state(&rules, target)
call_get_rules_matching_active_state(rules, target) ==
    /\ fn_call' = [fn |-> "get_rules_matching_active_state",
                   rules |-> rules,
                   target |-> target,
                   ret |-> get_rules_matching_active_state(rules, target)]
    /\ PureFrame

\* rules_match_name(&rules, unit_name)
call_rules_match_name(rules, unit_name) ==
    /\ fn_call' = [fn |-> "rules_match_name",
                   rules |-> rules,
                   unit_name |-> unit_name,
                   by_name |-> get_rules_matching_name(rules, unit_name),
                   ret |-> rules_match_name(rules, unit_name)]
    /\ PureFrame

\* The two filters one after the other, as gen_on_change's closure applies
\* them: by name, then by state.
call_rules_applicable(rules, unit_name, target) ==
    /\ fn_call' = [fn |-> "rules_applicable",
                   rules |-> rules,
                   unit_name |-> unit_name,
                   target |-> target,
                   ret |-> get_rules_matching_active_state(
                               get_rules_matching_name(rules, unit_name), target)]
    /\ PureFrame

\* Nothing runs and no call has been made.
PureInit ==
    /\ UsmInit
    /\ UsmIdleWatcher
    /\ MainIdle
    /\ fn_call = Absent
    /\ watchers = Absent

PureNext ==
    \/ \E value \in TryFromInputs : call_try_from(value)
    \/ \E value \in ActiveState : call_string_from(value)
    \/ \E value \in ActiveState : call_decode_encode(value)
    \/ \E value \in TryFromInputs : call_encode_decode(value)
    \/ \E active_state \in ActiveState : call_get_timestamp_key(active_state)
    \/ \E active_state \in ActiveState : call_get_monotonic_timestamp_key(active_state)
    \/ \E bus_name \in BusNames : call_make_path_like_bus_name(bus_name)
    \/ \E rules \in RuleLists, unit_name \in FilterNames :
          call_get_rules_matching_name(rules, unit_name)
    \/ \E rules \in RuleLists, target \in ActiveState :
          call_get_rules_matching_active_state(rules, target)
    \/ \E rules \in RuleLists, unit_name \in FilterNames :
          call_rules_match_name(rules, unit_name)
    \/ \E rules \in RuleLists, unit_name \in FilterNames, target \in ActiveState :
          call_rules_applicable(rules, unit_name, target)

\* The pure functions called again and again with arbitrary arguments.
PureSpec ==
    PureInit /\ [][PureNext]_vars

\* ---------------------------------------------------------------------------
\* The configuration loader (src/src/settings.rs): Settings::try_from applied
\* to deserialized settings files.  fn_call is the last call made.

\* Largest number of rules in a settings file handed to the loader.
MaxFileRules ==
    2

\* fn decode_bus_type_str
decode_bus_type_str(bus_type_str) ==
    CASE bus_type_str = "session" -> "Session"
      [] bus_type_str = "starter" -> "Starter"
      [] bus_type_str = "system" -> "System"
      [] OTHER -> "InvalidBusType"

\* The error of Notifier::try_from(value), None when there is none: the bus
\* type is decoded before Notifier::new checks the bus name.
NotifierError(value) ==
    IF decode_bus_type_str(value.bus_type) = "InvalidBusType" THEN "InvalidBusType"
    ELSE IF ~ValidBusName(value.bus_name) THEN "InvalidBusName"
    ELSE None

\* impl TryFrom<SerdeNotifier> for Notifier, for a value without error
NotifierTryFrom(value) ==
    [bus_name |-> value.bus_name, bus_type |-> decode_bus_type_str(value.bus_type)]

\* The error of Rule::try_from(value), None when there is none: the active
\* states are decoded first, then the bus type, then the expression type (the
\* regex expression type is not modelled).
RuleError(value) ==
    IF \E i \in 1..Len(value.active_states) :
          ActiveStateTryFrom(value.active_states[i]) = "InvalidActiveState"
    THEN "InvalidActiveState"
    ELSE IF decode_bus_type_str(value.bus_type) = "InvalidBusType" THEN "InvalidBusType"
    ELSE IF value.expression_type \notin {"unit name", "unit type"}
    THEN "InvalidExpressionType"
    ELSE None

\* impl TryFrom<SerdeRule> for Rule, for a value without error
RuleTryFrom(value) ==
    [active_states |-> {ActiveStateTryFrom(value.active_states[i]) :
                           i \in 1..Len(value.active_states)},
     bus_type |-> decode_bus_type_str(value.bus_type),
     expression |-> [kind |-> IF value.expression_type = "unit name"
                              THEN "UnitName" ELSE "UnitType",
                     expr |-> value.expression],
     notifiers |-> value.notifiers]

\* A loader that does not look the labels of a rule up.
RuleOrLabelErrorUnchecked(value, labels) ==
    RuleError(value)

\* The error the loop over the rules finds in one rule: that of
\* Rule::try_from, or InvalidNotifier for a label that is no key of the
\* notifier map.
RuleOrLabelError(value, labels) ==
    IF RuleError(value) # None THEN RuleError(value)
    ELSE IF \E i \in 1..Len(value.notifiers) : value.notifiers[i] \notin labels
    THEN "InvalidNotifier"
    ELSE None

\* impl TryFrom<SerdeSettings> for Settings: the results the call can have.
\* The notifiers are converted first, in the iteration order of a HashMap,
\* which is any order: with several bad notifiers the error is that of any of
\* them.  The rules are converted in order.
SettingsTryFrom(value) ==
    LET labels == DOMAIN value.notifiers
        notifier_errors == {NotifierError(value.notifiers[l]) : l \in labels} \ {None}
        bad_rules == {i \in 1..Len(value.rules) :
                         RuleOrLabelError(value.rules[i], labels) # None}
        first_bad == CHOOSE i \in bad_rules : \A j \in bad_rules : i <= j
        Err(e) == [ok |-> FALSE, err |-> e, settings |-> Absent]
    IN  IF notifier_errors # {}
        THEN {Err(e) : e \in notifier_errors}
        ELSE IF bad_rules # {}
        THEN {Err(RuleOrLabelError(value.rules[first_bad], labels))}
        ELSE {[ok |-> TRUE,
               err |-> None,
               settings |-> [notifiers |-> [l \in labels |->
                                               NotifierTryFrom(value.notifiers[l])],
                             rules |-> [i \in 1..Len(value.rules) |->
                                           RuleTryFrom(value.rules[i])]]]}

\* The bus_type strings of the settings files handed to the loader.
BusTypeStrings ==
    {"session", "system", "starter", "sessionn"}

\* struct SerdeNotifier: the notifiers of the files.  Label q always has a
\* good bus name.
SerdeNotifierMaps ==
    LET r_choices == [bus_name : {<<"n", ".", "R">>, <<"n">>}, bus_type : BusTypeStrings]
        q_choices == [bus_name : {<<"n", ".", "Q">>}, bus_type : BusTypeStrings]
    IN  {[l \in {"r"} |-> r] : r \in r_choices}
        \cup {[l \in {"r", "q"} |-> IF l = "r" THEN r ELSE q] :
                 r \in r_choices, q \in q_choices}

\* struct SerdeRule: the rules of the files.  A rule for foo.service with any
\* bus_type and any of three notifier lists, one of which names a label no
\* file defines; a rule with a misspelled state; a rule with an unknown
\* expression type.
SerdeRules ==
    {[active_states |-> <<"failed">>,
      bus_type |-> bus_type,
      expression |-> FooService,
      expression_type |-> "unit name",
      notifiers |-> notifiers] :
        bus_type \in BusTypeStrings, notifiers \in {<<"r">>, <<"r", "q">>, <<"x">>}}
    \cup {[active_states |-> <<"failed", "Failed">>,
           bus_type |-> "session",
           expression |-> <<".", "s">>,
           expression_type |-> "unit type",
           notifiers |-> <<"r">>],
          [active_states |-> <<"active", "failed", "active">>,
           bus_type |-> "system",
           expression |-> <<".", "s">>,
           expression_type |-> "unit typ",
           notifiers |-> <<"r">>]}

\* struct SerdeSettings: the deserialized files.
SerdeSettings ==
    [notifiers : SerdeNotifierMaps, rules : SeqsUpTo(SerdeRules, MaxFileRules)]

\* Settings::try_from(value), which a process calls once
settings_try_from(value) ==
    /\ fn_call = Absent
    /\ watchers = Absent
    /\ \E ret \in SettingsTryFrom(value) :
          fn_call' = [fn |-> "Settings::try_from", arg |-> value, ret |-> ret]
    /\ PureFrame

\* The file is read once: no second call is looked for after the first.
LoadNext ==
    /\ fn_call = Absent
    /\ \E value \in SerdeSettings : settings_try_from(value)

\* The loader called with an arbitrary file.
LoadSpec ==
    PureInit /\ [][LoadNext]_vars

\* ---------------------------------------------------------------------------
\* Two watchers, one per bus, as handle_no_subcommand spawns them: each thread
\* owns its BusWatcher and the unit_states map that run creates, and takes
\* the signals of its own connection.  The units of the two managers have the
\* same names.

\* The PropertiesChanged signals a watcher takes, decoded: a state of
\* foo.service and the time it was entered.
BusEvents ==
    [unit_name : {FooService}, active_state : {"Active", "Failed"}, timestamp : 1..MaxClock]

\* A watcher that keeps its unit state machines in a map all threads share.
HandleAtShared(ws, bus_type, event) ==
    LET w == ws[bus_type]
        r == Upsert(w.unit_states, event.unit_name, event.active_state, event.timestamp)
    IN  [b \in DOMAIN ws |->
            IF b = bus_type
            THEN [unit_states |-> r.states,
                  fired |-> w.fired \o r.calls,
                  handled |-> Append(w.handled, event)]
            ELSE [ws[b] EXCEPT !.unit_states = r.states]]

\* The watcher of bus_type upserts the observation into the map of its own
\* run; fired is every on_change call it has made, handled every signal it
\* has taken.
HandleAt(ws, bus_type, event) ==
    LET w == ws[bus_type]
        r == Upsert(w.unit_states, event.unit_name, event.active_state, event.timestamp)
    IN  [ws EXCEPT ![bus_type] = [unit_states |-> r.states,
                                  fired |-> w.fired \o r.calls,
                                  handled |-> Append(w.handled, event)]]

\* The watcher thread of bus_type handles the next signal of its connection.
watcher_handles(bus_type, event) ==
    /\ Len(watchers[bus_type].handled) < MaxHandled
    /\ watchers' = HandleAt(watchers, bus_type, event)
    /\ UNCHANGED fn_call
    /\ UNCHANGED <<usm_vars, manager_vars, watcher_vars, main_vars>>

\* Both threads have entered their loops with empty maps.
PairInit ==
    /\ UsmInit
    /\ UsmIdleWatcher
    /\ MainIdle
    /\ fn_call = Absent
    /\ watchers = [b \in BusTypes |-> [unit_states |-> <<>>, fired |-> <<>>, handled |-> <<>>]]

PairNext ==
    \E bus_type \in BusTypes, event \in BusEvents : watcher_handles(bus_type, event)

\* Two watcher threads taking signals in any interleaving.
PairSpec ==
    PairInit /\ [][PairNext]_vars

\* ---------------------------------------------------------------------------
\* One watcher followed through a longer run of observations of one unit, with
\* every observation it has taken kept in watchers[..].handled.

\* Number of observations the watcher is followed through.
MaxObservations ==
    3

\* The observations: any of three states of foo.service with any timestamp,
\* 0 included.
Observations ==
    [unit_name : {FooService},
     active_state : {"Active", "Failed", "Inactive"},
     timestamp : 0..MaxTs]

\* upsert_unit_states with the next observation: a create for the first one,
\* an update for the others.
watcher_observes(event) ==
    /\ Len(watchers["Session"].handled) < MaxObservations
    /\ watchers' = HandleAt(watchers, "Session", event)
    /\ UNCHANGED fn_call
    /\ UNCHANGED <<usm_vars, manager_vars, watcher_vars, main_vars>>

ObserveInit ==
    /\ UsmInit
    /\ UsmIdleWatcher
    /\ MainIdle
    /\ fn_call = Absent
    /\ watchers = [b \in {"Session"} |->
                      [unit_states |-> <<>>, fired |-> <<>>, handled |-> <<>>]]

ObserveNext ==
    \E event \in Observations : watcher_observes(event)

\* A create followed by updates with arbitrary arguments, all of them kept.
ObserveSpec ==
    ObserveInit /\ [][ObserveNext]_vars

\* ---------------------------------------------------------------------------
\* The unit state machine with a callback that can fail (src/src/unit.rs):
\* on_change returns Result<(), Error>, and new and update pass its error on
\* with `?`.  cb_ok is what the callback returns when it is called.

\* An update that puts the old state and timestamp back when on_change fails.
UsmUpdateResultRollback(self, active_state, mono_ts, cb_ok) ==
    IF self.mono_ts < mono_ts
    THEN LET stamped == [self EXCEPT !.mono_ts = mono_ts]
         IN  IF self.active_state # active_state
             THEN LET changed == [stamped EXCEPT !.active_state = active_state]
                  IN  [usm |-> IF cb_ok THEN changed ELSE self,
                       calls |-> <<[seen |-> changed, old_state |-> self.active_state]>>,
                       ret |-> IF cb_ok THEN "Ok" ELSE "Err"]
             ELSE [usm |-> stamped, calls |-> <<>>, ret |-> "Ok"]
    ELSE [usm |-> self, calls |-> <<>>, ret |-> "Ok"]

\* UnitStateMachine::new: `on_change(&usm, None)?; Ok(usm)`
UsmNewResult(active_state, mono_ts, cb_ok) ==
    LET new_usm == UnitStateMachine(active_state, mono_ts)
    IN  [usm |-> IF cb_ok THEN new_usm ELSE Absent,
         calls |-> <<[seen |-> new_usm, old_state |-> None]>>,
         ret |-> IF cb_ok THEN "Ok" ELSE "Err"]

\* UnitStateMachine::update: the fields are assigned before
\* `on_change(&self, Some(old_state))?`, and nothing undoes them.
UsmUpdateResult(self, active_state, mono_ts, cb_ok) ==
    IF self.mono_ts < mono_ts
    THEN LET stamped == [self EXCEPT !.mono_ts = mono_ts]
         IN  IF self.active_state # active_state
             THEN LET changed == [stamped EXCEPT !.active_state = active_state]
                  IN  [usm |-> changed,
                       calls |-> <<[seen |-> changed, old_state |-> self.active_state]>>,
                       ret |-> IF cb_ok THEN "Ok" ELSE "Err"]
             ELSE [usm |-> stamped, calls |-> <<>>, ret |-> "Ok"]
    ELSE [usm |-> self, calls |-> <<>>, ret |-> "Ok"]

\* let usm = UnitStateMachine::new(active_state, mono_ts, &on_change)
usm_try_new(active_state, mono_ts, cb_ok) ==
    /\ usm = Absent
    /\ LET r == UsmNewResult(active_state, mono_ts, cb_ok)
       IN  /\ usm' = r.usm
           /\ usm_calls' = r.calls
           /\ usm_op' = [kind |-> "new", active_state |-> active_state,
                         mono_ts |-> mono_ts, cb_ok |-> cb_ok, ret |-> r.ret]
    /\ usm_prev' = usm

\* usm.update(active_state, mono_ts, &on_change)
usm_try_update(active_state, mono_ts, cb_ok) ==
    /\ usm # Absent
    /\ LET r == UsmUpdateResult(usm, active_state, mono_ts, cb_ok)
       IN  /\ usm' = r.usm
           /\ usm_calls' = r.calls
           /\ usm_op' = [kind |-> "update", active_state |-> active_state,
                         mono_ts |-> mono_ts, cb_ok |-> cb_ok, ret |-> r.ret]
    /\ usm_prev' = usm

FallibleNext ==
    \/ \E active_state \in ActiveState, mono_ts \in 0..MaxTs, cb_ok \in BOOLEAN :
          /\ usm_try_new(active_state, mono_ts, cb_ok)
          /\ UNCHANGED <<manager_vars, watcher_vars, main_vars, fn_call, watchers>>
    \/ \E active_state \in ActiveState, mono_ts \in 0..MaxTs, cb_ok \in BOOLEAN :
          /\ usm_try_update(active_state, mono_ts, cb_ok)
          /\ UNCHANGED <<manager_vars, watcher_vars, main_vars, fn_call, watchers>>

\* One unit state machine whose callback fails or not, call by call.
FallibleSpec ==
    UsmSpecInit /\ [][FallibleNext]_vars

\* ---------------------------------------------------------------------------
\* Properties of the unit state machine, checked under UsmSpec.

\* C1: after a create and any number of updates with arbitrary arguments, the
\* stored timestamp never decreases: every call leaves mono_ts at least as
\* large as it found it.
C1_TimestampNeverDecreases ==
    (usm_prev # Absent) => usm.mono_ts >= usm_prev.mono_ts

\* A stale update was offered and the timestamp stayed.
C1_Witness ==
    /\ usm_prev # Absent
    /\ usm_op.kind = "update"
    /\ usm_op.mono_ts < usm_prev.mono_ts
    /\ usm.mono_ts = usm_prev.mono_ts

\* C2: update(s', t') on a machine holding (s, t) calls on_change exactly
\* once, with old = s and with the machine already showing (s', t'), iff
\* t' > t and s' # s; otherwise it calls on_change zero times.
C2_CallbackIffNewerAndDifferent ==
    (usm_op # Absent /\ usm_op.kind = "update") =>
        IF usm_op.mono_ts > usm_prev.mono_ts /\ usm_op.active_state # usm_prev.active_state
        THEN /\ usm_calls = <<[seen |-> [active_state |-> usm_op.active_state,
                                         mono_ts |-> usm_op.mono_ts],
                               old_state |-> usm_prev.active_state]>>
             /\ usm = usm_calls[1].seen
        ELSE usm_calls = <<>>

\* An update changed the state and called back.
C2_Witness ==
    /\ usm_op # Absent
    /\ usm_op.kind = "update"
    /\ Len(usm_calls) = 1
    /\ usm.active_state # usm_prev.active_state

\* C3: an update whose timestamp is not larger than the stored one, an equal
\* timestamp with a different state included, changes neither the state nor
\* the timestamp and calls nothing; so any number of them change nothing.
C3_StaleUpdateIsNoOp ==
    (usm_op # Absent /\ usm_op.kind = "update" /\ usm_op.mono_ts <= usm_prev.mono_ts) =>
        /\ usm = usm_prev
        /\ usm_calls = <<>>

\* An update with the stored timestamp and another state was offered.
C3_Witness ==
    /\ usm_op # Absent
    /\ usm_op.kind = "update"
    /\ usm_op.mono_ts = usm_prev.mono_ts
    /\ usm_op.active_state # usm_prev.active_state
    /\ usm = usm_prev

\* C4: creating a machine with any (state, timestamp), timestamp 0 included,
\* stores exactly that pair and calls on_change exactly once with old = none.
C4_CreateStoresAndCallsOnce ==
    (usm_op # Absent /\ usm_op.kind = "new") =>
        /\ usm = [active_state |-> usm_op.active_state, mono_ts |-> usm_op.mono_ts]
        /\ usm_calls = <<[seen |-> usm, old_state |-> None]>>

\* A machine was created with timestamp 0.
C4_Witness ==
    /\ usm_op # Absent
    /\ usm_op.kind = "new"
    /\ usm_op.mono_ts = 0
    /\ usm.mono_ts = 0
    /\ Len(usm_calls) = 1

\* C32: an update with a strictly newer timestamp and the stored state stores
\* the new timestamp, keeps the state and calls nothing.  The update after it
\* is compared with the timestamp it stored: one with a different state calls
\* on_change iff its timestamp is newer than the advanced one, and changes
\* nothing when it is only newer than the timestamp held before the advance.
C32_TimestampAdvancesWithoutCallback ==
    [][(usm # Absent /\ usm_op' # Absent /\ usm_op'.kind = "update")
       => /\ (usm_op'.mono_ts > usm.mono_ts /\ usm_op'.active_state = usm.active_state)
             => /\ usm'.mono_ts = usm_op'.mono_ts
                /\ usm'.active_state = usm.active_state
                /\ usm_calls' = <<>>
          /\ (/\ usm_op.kind = "update"
              /\ usm_op.active_state = usm_prev.active_state
              /\ usm_op.mono_ts > usm_prev.mono_ts
              /\ usm_op'.active_state # usm.active_state)
             => /\ usm.mono_ts = usm_op.mono_ts
                /\ (usm_calls' # <<>>) <=> (usm_op'.mono_ts > usm_op.mono_ts)
                /\ usm_op'.mono_ts > usm_op.mono_ts
                   => /\ usm' = [active_state |-> usm_op'.active_state,
                                 mono_ts |-> usm_op'.mono_ts]
                      /\ usm_calls' = <<[seen |-> usm', old_state |-> usm.active_state]>>
                /\ usm_op'.mono_ts <= usm_op.mono_ts => usm' = usm
      ]_vars

\* An update with the stored state and a newer timestamp advanced the
\* timestamp and called nothing, and newer timestamps are left to offer.
C32_Witness ==
    /\ usm_op # Absent
    /\ usm_op.kind = "update"
    /\ usm_prev # Absent
    /\ usm_op.active_state = usm_prev.active_state
    /\ usm_op.mono_ts > usm_prev.mono_ts
    /\ usm = [active_state |-> usm_prev.active_state, mono_ts |-> usm_op.mono_ts]
    /\ usm_calls = <<>>
    /\ usm.mono_ts < MaxTs

\* ---------------------------------------------------------------------------
\* Properties of the watcher, checked under Spec.

\* What an upsert of (active_state, timestamp) under unit_name must do to the
\* map and to the on_change calls, stated from the upsert contract.
UpsertContract(unit_name, active_state, timestamp) ==
    /\ DOMAIN unit_states' = DOMAIN unit_states \cup {unit_name}
    /\ \A other \in DOMAIN unit_states \ {unit_name} :
          unit_states'[other] = unit_states[other]
    /\ IF unit_name \notin DOMAIN unit_states
       THEN /\ unit_states'[unit_name] =
                  [active_state |-> active_state, mono_ts |-> timestamp]
            /\ fired' = <<[unit_name |-> unit_name,
                           seen |-> unit_states'[unit_name],
                           old_state |-> None]>>
       ELSE LET old == unit_states[unit_name]
            IN  /\ unit_states'[unit_name] =
                      IF timestamp > old.mono_ts
                      THEN [active_state |-> active_state, mono_ts |-> timestamp]
                      ELSE old
                /\ IF unit_states'[unit_name].active_state # old.active_state
                   THEN fired' = <<[unit_name |-> unit_name,
                                    seen |-> unit_states'[unit_name],
                                    old_state |-> old.active_state]>>
                   ELSE fired' = <<>>

\* C5: an upsert that returns, whether made by upsert_unit_states or by the
\* PropertiesChanged handler, creates the machine and calls back with old =
\* none when the map has no entry for the name, and otherwise applies the
\* update rule and calls back iff the state changed; afterwards the map has an
\* entry for the name and every other entry is unchanged.
C5_UpsertContract ==
    [][/\ (pc = "upsert_unit_states" /\ pc' \notin {pc, "exited"}) =>
             UpsertContract(cur.name,
                            ActiveStateTryFrom(cur.props.ActiveState),
                            cur.props[get_timestamp_key(ActiveStateTryFrom(cur.props.ActiveState))])
       /\ (/\ pc = "loop"
           /\ pc' = "loop"
           /\ queue # <<>>
           /\ queue' = Tail(queue)
           /\ Head(queue).type = "PropertiesChanged") =>
             LET changed == Head(queue).changed_properties
             IN  UpsertContract(IdOfPath(Head(queue).path),
                                ActiveStateTryFrom(changed.ActiveState),
                                changed[get_timestamp_key(ActiveStateTryFrom(changed.ActiveState))])
      ]_vars

\* An upsert found an entry, changed its state and called back with the old one.
C5_Witness ==
    /\ fired # <<>>
    /\ fired[1].old_state # None
    /\ fired[1].unit_name \in DOMAIN unit_states
    /\ unit_states[fired[1].unit_name] = fired[1].seen

\* C6: a watcher connected to bus B tracks a unit, and sends a notification
\* about it, only if the unit's name matches a rule whose bus_type is B; a
\* rule of another bus causes neither.
C6_OnlyRulesOfConnectedBus ==
    LET bound(unit_name) ==
            \E i \in DOMAIN settings.rules :
               /\ settings.rules[i].bus_type = conn_bus
               /\ ExpressionMatches(settings.rules[i].expression, unit_name)
    IN  /\ \A unit_name \in DOMAIN unit_states : bound(unit_name)
        /\ \A i \in DOMAIN notified : bound(notified[i].body[2])

\* C7: run makes its start-up calls in the order Subscribe, drain, UnitRemoved
\* filter, UnitNew filter, ListUnits; the UnitNew filter is never held without
\* the UnitRemoved filter, no unit is looked at before all five have
\* succeeded, and a failed call is the last call of a run that returns an error.
C7_StartupOrder ==
    LET order == <<"Subscribe", "Drain", "AddMatchUnitRemoved", "AddMatchUnitNew",
                   "ListUnits">>
        n == Len(startup_calls)
        complete == n = Len(order) /\ \A i \in 1..n : startup_calls[i].ok
    IN  /\ n <= Len(order)
        /\ \A i \in 1..n : startup_calls[i].op = order[i]
        /\ \A i \in 1..n :
              ~startup_calls[i].ok => i = n /\ pc = "exited" /\ result = "err"
        /\ unit_new_match => unit_removed_match
        /\ (n >= 4 /\ startup_calls[4].ok) = unit_new_match
        /\ (n >= 3 /\ startup_calls[3].ok) = unit_removed_match
        /\ (pc \in {"units", "loop"} \/ unit_names # <<>> \/ unit_calls # <<>>
              \/ unit_states # <<>> \/ cur # NoCur) => complete

\* The start-up ran to the listing of units, every call having succeeded.
C7_Witness ==
    /\ pc = "units"
    /\ Len(startup_calls) = 5
    /\ \A i \in 1..5 : startup_calls[i].ok
    /\ unit_removed_match /\ unit_new_match
    /\ unit_names # <<>>

\* C8: for a unit being set up, at bootstrap or on UnitNew, GetAll is called
\* only with a PropertiesChanged filter held for the unit's path, installed
\* earlier in the same set-up, and the upsert comes only after that GetAll.
C8_FilterBeforeReadBeforeUpsert ==
    LET earlier(i, op) ==
            \E j \in 1..(i - 1) :
               unit_calls[j].op = op /\ unit_calls[j].path = unit_calls[i].path
    IN  /\ \A i \in DOMAIN unit_calls :
              /\ unit_calls[i].op = "GetAll" =>
                    /\ unit_calls[i].filters > 0
                    /\ earlier(i, "AddMatch")
              /\ unit_calls[i].op = "Upsert" =>
                    /\ earlier(i, "GetAll")
                    /\ earlier(i, "AddMatch")
        /\ pc = "call_properties_get_all" => pc_match[cur.path] > 0
        /\ pc = "upsert_unit_states" => cur.props # Absent /\ pc_match[cur.path] > 0

\* A unit announced by UnitNew went through filter, read and upsert.
C8_Witness ==
    /\ cur.ctx = "new"
    /\ Len(unit_calls) = 3
    /\ unit_calls[1].op = "AddMatch"
    /\ unit_calls[2].op = "GetAll"
    /\ unit_calls[3].op = "Upsert"
    /\ cur.name \in DOMAIN unit_states

\* C9: the manager stamps every change with a larger timestamp and signals in
\* order; then, whenever the watcher has processed every message sent so far,
\* the state machine of each tracked, loaded unit whose set-up (filter, read,
\* upsert) succeeded holds the manager's current state and the timestamp of
\* that state.
C9_TrackedStateIsCurrent ==
    (pc = "loop" /\ queue = <<>>) =>
        \A u \in (DOMAIN unit_states) \cap loaded \cap set_up :
           unit_states[u] =
              UnitStateMachine(ActiveStateTryFrom(mprops[u].ActiveState),
                               mprops[u][ManagerTimestampProperty(mprops[u].ActiveState)])

\* C10: with the watcher running, a unit that is unloaded and whose
\* UnitRemoved signals have all been processed has no entry in the map.
C10_NoPhantomStateMachine ==
    \A u \in Units :
       ( /\ pc # "exited"
         /\ unit_removed_match
         /\ u \notin loaded
         /\ \A i \in DOMAIN queue :
               ~(queue[i].type = "UnitRemoved" /\ queue[i].name = u) )
       => u \notin DOMAIN unit_states

\* UnitRemoved was processed for an unloaded unit that had a state machine,
\* and the state machine is gone.
C10_Witness ==
    /\ pc = "loop"
    /\ queue = <<>>
    /\ Len(unit_calls) = 1
    /\ unit_calls[1].op = "RemoveMatch"
    /\ unit_calls[1].had_entry
    /\ IdOfPath(unit_calls[1].path) \notin loaded
    /\ IdOfPath(unit_calls[1].path) \notin DOMAIN unit_states

\* The event loop takes a PropertiesChanged signal of the unit interface for
\* a unit that has a state machine, and the handler returns without error.
SignalHandledForTrackedUnit ==
    /\ pc = "loop"
    /\ pc' = "loop"
    /\ queue # <<>>
    /\ queue' = Tail(queue)
    /\ Head(queue).type = "PropertiesChanged"
    /\ Head(queue).interface = INTERFACE_FOR_SYSTEMD_UNIT
    /\ PropsDecode(Head(queue).changed_properties)
    /\ IdOfPath(Head(queue).path) \in DOMAIN unit_states

\* C11 as stated: every signal the running loop handles for a tracked unit
\* whose state differs from the stored state changes the state machine and
\* calls back.
C11_EveryDifferingSignalChangesState ==
    [][SignalHandledForTrackedUnit =>
          LET unit_name == IdOfPath(Head(queue).path)
              changed == Head(queue).changed_properties
          IN  ActiveStateTryFrom(changed.ActiveState) # unit_states[unit_name].active_state =>
                 /\ unit_states'[unit_name] # unit_states[unit_name]
                 /\ fired' # <<>>
      ]_vars

\* C11, corrected: a signal the running loop handles for a tracked unit whose
\* state differs from the stored state changes the state machine and calls
\* back exactly when its timestamp is larger than the stored one; a signal
\* with an older or equal timestamp changes nothing and calls nothing.
C11_NewerDifferingSignalChangesState ==
    [][SignalHandledForTrackedUnit =>
          LET unit_name == IdOfPath(Head(queue).path)
              changed == Head(queue).changed_properties
              active_state == ActiveStateTryFrom(changed.ActiveState)
              timestamp == changed[get_timestamp_key(active_state)]
              old == unit_states[unit_name]
          IN  active_state # old.active_state =>
                 IF timestamp > old.mono_ts
                 THEN /\ unit_states'[unit_name] =
                            [active_state |-> active_state, mono_ts |-> timestamp]
                      /\ fired' = <<[unit_name |-> unit_name,
                                     seen |-> unit_states'[unit_name],
                                     old_state |-> old.active_state]>>
                 ELSE /\ unit_states' = unit_states
                      /\ fired' = <<>>
                      /\ notified' = <<>>
      ]_vars

\* The loop has just handled a signal that changed a tracked unit's state:
\* the handler's callback carries the state the unit had before.
C11_Witness ==
    /\ pc = "loop"
    /\ cur = NoCur
    /\ Len(unit_calls) = 1
    /\ unit_calls[1].op = "GetId"
    /\ Len(fired) = 1
    /\ fired[1].old_state # None
    /\ fired[1].seen.mono_ts > 0
    /\ unit_states[fired[1].unit_name] = fired[1].seen

\* C12: for one unit name, each on_change call carries a timestamp at least as
\* large as the one of the previous call for that name, whatever happened to
\* the unit's state machine in between.
C12_CallbackTimestampsNeverDecrease ==
    [][\A i \in DOMAIN fired' :
          fired'[i].seen.mono_ts >= last_fired[fired'[i].unit_name]
      ]_vars

C21_PerUnitFailureSwallowedFilterFailureFatal ==
    [][LET last == unit_calls'[Len(unit_calls')]
       IN  (/\ unit_calls' # unit_calls
            /\ unit_calls' # <<>>
            /\ last.op \in {"GetUnit", "GetAll", "AddMatch"}
            /\ ~last.ok)
           => /\ unit_states' = unit_states
              /\ pc_match' = pc_match
              /\ fired' = <<>>
              /\ notified' = <<>>
              /\ IF last.op = "AddMatch"
                 THEN pc' = "exited" /\ result' = "err"
                 ELSE /\ result' = None
                      /\ IF last.ctx = "boot"
                         THEN /\ pc' = "units"
                              /\ IdOfPath(last.path) \notin DOMAIN unit_states'
                              /\ unit_names' = IF last.op = "GetUnit"
                                               THEN Tail(unit_names)
                                               ELSE unit_names
                         ELSE /\ pc' = "loop"
                              /\ queue' = queue
      ]_vars

\* Bootstrap installed the filter of foo.service and failed to read its
\* properties, went on to set up the mount unit listed after it, and reached
\* the signal loop.
C21_Witness ==
    /\ pc = "loop"
    /\ result = None
    /\ pc_match[PathOf(FooService)] > 0
    /\ FooService \notin DOMAIN unit_states
    /\ BarMount \in DOMAIN unit_states
    /\ unit_calls # <<>>
    /\ unit_calls[Len(unit_calls)].op = "Upsert"
    /\ unit_calls[Len(unit_calls)].ctx = "boot"
    /\ unit_calls[Len(unit_calls)].path = PathOf(BarMount)

\* The running loop takes a UnitRemoved signal of a unit of interest off the
\* queue.
UnitRemovedTaken ==
    /\ pc = "loop"
    /\ queue # <<>>
    /\ Head(queue).type = "UnitRemoved"
    /\ queue' = Tail(queue)
    /\ rules_match_name(settings.rules, Head(queue).name)

\* C22: handling UnitRemoved for a unit of interest that has no entry in the
\* unit-state map and no PropertiesChanged filter (its GetUnit failed at
\* bootstrap) leaves the map as it is and the watcher in its loop.
C22_RemovalOfUntrackedUnitIsNoOp ==
    [][(/\ UnitRemovedTaken
        /\ Head(queue).name \notin DOMAIN unit_states
        /\ pc_match[Head(queue).path] = 0)
       => /\ unit_states' = unit_states
          /\ pc' = "loop"
          /\ result' = None
      ]_vars

\* C23: once the loop has handled UnitRemoved(name, path) for a unit of
\* interest, the connection holds no PropertiesChanged filter for path and the
\* unit-state map has no entry for name.
C23_RemovalLeavesNoFilterAndNoEntry ==
    (/\ unit_calls # <<>>
     /\ unit_calls[Len(unit_calls)].op = "RemoveMatch"
     /\ result # "panic")
    => /\ pc_match[unit_calls[Len(unit_calls)].path] = 0
       /\ IdOfPath(unit_calls[Len(unit_calls)].path) \notin DOMAIN unit_states

\* ---------------------------------------------------------------------------
\* Properties of the handling of odd signals and values, checked under
\* SignalSpec.

\* The running loop takes a PropertiesChanged signal off the queue.
PropertiesChangedTaken ==
    /\ pc = "loop"
    /\ queue # <<>>
    /\ Head(queue).type = "PropertiesChanged"
    /\ queue' = Tail(queue)

\* C18: a PropertiesChanged signal that names another interface than
\* org.freedesktop.systemd1.Unit, or whose changed map has no ActiveState, is
\* dropped: the unit-state map and the match rules stay as they are, no bus
\* call and no outbound call is made, no callback runs, and the loop goes on
\* without a result.
C18_IrrelevantSignalIgnored ==
    [][(/\ PropertiesChangedTaken
        /\ \/ Head(queue).interface # INTERFACE_FOR_SYSTEMD_UNIT
           \/ "ActiveState" \notin DOMAIN Head(queue).changed_properties)
       => /\ unit_states' = unit_states
          /\ pc_match' = pc_match
          /\ unit_calls' = <<>>
          /\ startup_calls' = startup_calls
          /\ fired' = <<>>
          /\ notified' = <<>>
          /\ pc' = "loop"
          /\ result' = None
      ]_vars

\* The loop has just dropped a signal that names the Service interface and
\* carries an ActiveState, for a unit it tracks, and goes on.
C18_Witness ==
    /\ last_signal # Absent
    /\ last_signal.interface = INTERFACE_FOR_SYSTEMD_SERVICE
    /\ "ActiveState" \in DOMAIN last_signal.changed_properties
    /\ IdOfPath(last_signal.path) \in DOMAIN unit_states
    /\ pc = "loop"
    /\ result = None

\* C19: a PropertiesChanged signal of the Unit interface whose ActiveState is
\* one of the five states but which lacks that state's timestamp property
\* ends run with an error; the unit-state map is as before the signal, and no
\* callback and no outbound call is made.
C19_MissingTimestampIsFatal ==
    [][(/\ PropertiesChangedTaken
        /\ Head(queue).interface = INTERFACE_FOR_SYSTEMD_UNIT
        /\ "ActiveState" \in DOMAIN Head(queue).changed_properties
        /\ ActiveStateTryFrom(Head(queue).changed_properties.ActiveState) \in ActiveState
        /\ get_timestamp_key(ActiveStateTryFrom(Head(queue).changed_properties.ActiveState))
              \notin DOMAIN Head(queue).changed_properties)
       => /\ pc' = "exited"
          /\ result' = "err"
          /\ unit_states' = unit_states
          /\ fired' = <<>>
          /\ notified' = <<>>
      ]_vars

\* run has ended with an error on a signal that carries ActiveState alone,
\* with a state other than the one stored for the unit it tracks.
C19_Witness ==
    /\ last_signal # Absent
    /\ last_signal.interface = INTERFACE_FOR_SYSTEMD_UNIT
    /\ DOMAIN last_signal.changed_properties = {"ActiveState"}
    /\ IdOfPath(last_signal.path) \in DOMAIN unit_states
    /\ ActiveStateTryFrom(last_signal.changed_properties.ActiveState) \in
          ActiveState \ {unit_states[IdOfPath(last_signal.path)].active_state}
    /\ pc = "exited"
    /\ result = "err"

C33_UnmatchedNameHasNoEffect ==
    [][LET unmatched(unit_name) ==
               \A i \in 1..Len(settings.rules) :
                  ~ExpressionMatches(settings.rules[i].expression, unit_name)
           listed == /\ pc = "units"
                     /\ unit_names # <<>>
                     /\ unit_names' = Tail(unit_names)
                     /\ unmatched(Head(unit_names))
           signalled == /\ pc = "loop"
                        /\ queue # <<>>
                        /\ Head(queue).type \in {"UnitNew", "UnitRemoved"}
                        /\ queue' = Tail(queue)
                        /\ unmatched(Head(queue).name)
       IN  (listed \/ signalled)
           => /\ unit_calls' \in {unit_calls, <<>>}
              /\ pc_match' = pc_match
              /\ unit_states' = unit_states
              /\ fired' = <<>>
              /\ notified' = <<>>
              /\ pc' = pc
              /\ result' = result
      ]_vars

\* The bootstrap is over under the configuration whose only rule is for
\* foo.service; bar.mount was loaded all along, so it was listed, and it has
\* no filter and no entry.
C33_Witness ==
    /\ settings.rules = <<RuleSession>>
    /\ pc = "loop"
    /\ load_events = 0
    /\ BarMount \in loaded
    /\ Len(startup_calls) = 5
    /\ DOMAIN unit_states = {FooService}
    /\ pc_match[PathOf(BarMount)] = 0
    /\ pc_match[PathOf(FooService)] = 1

\* C37: every key of the unit-state map is a unit name that at least one
\* configured rule matches, whichever handler wrote the entry: the bootstrap,
\* the UnitNew handler, or the PropertiesChanged handler, which reads the name
\* off the unit object at the signal's path.
C37_EveryTrackedNameMatchesARule ==
    \A unit_name \in DOMAIN unit_states :
       \E i \in 1..Len(settings.rules) :
          ExpressionMatches(settings.rules[i].expression, unit_name)

\* Under the configuration whose only rule is for foo.service, with bar.mount
\* loaded, the PropertiesChanged handler has just read the name at the
\* signal's path and created the entry of foo.service.
C37_Witness ==
    /\ settings.rules = <<RuleSession>>
    /\ BarMount \in loaded
    /\ pc = "loop"
    /\ last_signal # Absent
    /\ Len(unit_calls) = 1
    /\ unit_calls[1].op = "GetId"
    /\ Len(fired) = 1
    /\ fired[1].old_state = None
    /\ fired[1].unit_name = IdOfPath(last_signal.path)
    /\ DOMAIN unit_states = {FooService}

\* C38: a unit has an entry in the unit-state map only while a
\* PropertiesChanged filter is installed for its object path.  An entry is
\* created only with the filter already in place, and a step that removes a
\* filter of a path leaves no entry for the unit of that path.
C38_EntryOnlyWithInstalledFilter ==
    /\ [](\A unit_name \in DOMAIN unit_states : pc_match[PathOf(unit_name)] > 0)
    /\ [][/\ \A unit_name \in (DOMAIN unit_states') \ (DOMAIN unit_states) :
                /\ pc_match[PathOf(unit_name)] > 0
                /\ pc_match'[PathOf(unit_name)] = pc_match[PathOf(unit_name)]
          /\ \A path \in DOMAIN pc_match :
                pc_match'[path] < pc_match[path]
                   => IdOfPath(path) \notin DOMAIN unit_states'
         ]_vars

\* C40: a failed GetAll, which comes after the PropertiesChanged filter of the
\* unit was installed, leaves the filter installed and adds no entry, and the
\* watcher goes on.  A PropertiesChanged of the unit interface that carries
\* ActiveState and its timestamp, taken by the running loop for a unit that
\* has no entry, creates the entry with the signal's state and timestamp and
\* calls on_change once with old = none.
C40_FailedReadIsRepairedBySignal ==
    [][LET read_failed == /\ pc = "call_properties_get_all"
                          /\ unit_calls' # <<>>
                          /\ unit_calls'[Len(unit_calls')].op = "GetAll"
                          /\ ~unit_calls'[Len(unit_calls')].ok
           signal_taken == /\ pc = "loop"
                           /\ pc' = "loop"
                           /\ queue # <<>>
                           /\ queue' = Tail(queue)
                           /\ Head(queue).type = "PropertiesChanged"
                           /\ Head(queue).interface = INTERFACE_FOR_SYSTEMD_UNIT
                           /\ PropsDecode(Head(queue).changed_properties)
                           /\ IdOfPath(Head(queue).path) \notin DOMAIN unit_states
       IN  /\ read_failed =>
                /\ pc_match[cur.path] > 0
                /\ pc_match' = pc_match
                /\ unit_states' = unit_states
                /\ fired' = <<>>
                /\ notified' = <<>>
                /\ pc' = (IF cur.ctx = "boot" THEN "units" ELSE "loop")
                /\ result' = result
           /\ signal_taken =>
                LET unit_name == IdOfPath(Head(queue).path)
                    changed == Head(queue).changed_properties
                    active_state == ActiveStateTryFrom(changed.ActiveState)
                    created == [active_state |-> active_state,
                                mono_ts |-> changed[get_timestamp_key(active_state)]]
                IN  /\ DOMAIN unit_states' = DOMAIN unit_states \cup {unit_name}
                    /\ unit_states'[unit_name] = created
                    /\ \A other \in DOMAIN unit_states : unit_states'[other] = unit_states[other]
                    /\ fired' = <<[unit_name |-> unit_name, seen |-> created,
                                   old_state |-> None]>>
      ]_vars

\* foo.service was loaded all along and its filter was installed by the
\* bootstrap, but its read failed, so it was never set up; the loop has just
\* taken a PropertiesChanged for it, which created its entry and called
\* on_change with old = none.
C40_Witness ==
    /\ pc = "loop"
    /\ load_events = 0
    /\ FooService \notin set_up
    /\ pc_match[PathOf(FooService)] = 1
    /\ last_signal # Absent
    /\ last_signal.path = PathOf(FooService)
    /\ Len(unit_calls) = 1
    /\ unit_calls[1].op = "GetId"
    /\ fired = <<[unit_name |-> FooService, seen |-> unit_states[FooService],
                  old_state |-> None]>>

\* ---------------------------------------------------------------------------
\* Properties of the return of run, checked under LoopOnceSpec.

\* C24: run returns Ok only with loop_once set, and then after the whole
\* start-up succeeded, every listed unit was gone through and the queue was
\* drained; with loop_once unset, run ends only with an error or a panic.
C24_SuccessOnlyWithLoopOnce ==
    /\ result = "ok" =>
          /\ loop_once
          /\ pc = "exited"
          /\ Len(startup_calls) = 5
          /\ \A i \in 1..5 : startup_calls[i].ok
          /\ unit_names = <<>>
          /\ queue = <<>>
    /\ pc = "exited" => result \in {"ok", "err", "panic"}
    /\ (pc = "exited" /\ ~loop_once) => result \in {"err", "panic"}

\* run returned Ok after a drain pass that ended with a PropertiesChanged
\* signal for a tracked unit.
C24_Witness ==
    /\ pc = "exited"
    /\ result = "ok"
    /\ loop_once
    /\ unit_states # <<>>
    /\ unit_calls # <<>>
    /\ unit_calls[Len(unit_calls)].op = "GetId"

\* ---------------------------------------------------------------------------
\* Properties of the supervisor, checked under MainSpec.

\* C13: the process exits with success iff every spawned worker succeeded; a
\* worker that returned an error or panicked, a failed connection to its bus
\* included, makes the exit code 1.
C13_ExitCodeIsSuccessIffAllWorkersSucceeded ==
    main_pc = "exited" =>
       /\ exit_code = 0 <=> \A i \in DOMAIN handles : workers[handles[i]] = "ok"
       /\ exit_code \in {0, 1}

C25_OneWatcherPerBusOfTheRules ==
    LET named == {settings.rules[r].bus_type : r \in DOMAIN settings.rules}
    IN  /\ {bus_types[i] : i \in DOMAIN bus_types} = named
        /\ \A i, j \in DOMAIN bus_types : bus_types[i] = bus_types[j] => i = j
        /\ \A i \in DOMAIN handles : handles[i] = bus_types[i]
        /\ Len(handles) <= Len(bus_types)
        /\ main_pc # "spawn" => Len(handles) = Len(bus_types)
        /\ \A b \in BusTypes :
              workers[b] # "unspawned" <=> \E i \in DOMAIN handles : handles[i] = b
        /\ settings.rules = <<>> => handles = <<>>

\* Two rules name the session bus and none the system bus: the spawning has
\* ended with one thread, the session bus's.
C25_Witness ==
    /\ Len(settings.rules) = 2
    /\ \A r \in DOMAIN settings.rules : settings.rules[r].bus_type = "Session"
    /\ main_pc # "spawn"
    /\ handles = <<"Session">>
    /\ workers["System"] = "unspawned"

\* ---------------------------------------------------------------------------
\* Properties of the process, checked under ProcessSpec.

\* C26: when the Subscribe call fails, run ends with an error at once: no
\* signal filter is installed, no state machine exists, no other call of the
\* start-up is made, and the process exits with code 1.
C26_SubscribeFailureExitsWithOne ==
    (startup_calls # <<>> /\ ~startup_calls[1].ok) =>
       /\ startup_calls[1].op = "Subscribe"
       /\ Len(startup_calls) = 1
       /\ pc = "exited"
       /\ result = "err"
       /\ ~unit_removed_match
       /\ ~unit_new_match
       /\ \A p \in DOMAIN pc_match : pc_match[p] = 0
       /\ unit_states = <<>>
       /\ unit_calls = <<>>
       /\ workers[conn_bus] \in {"running", "err"}
       /\ joined = 1 => exit_code = 1
       /\ main_pc = "exited" => exit_code = 1

\* Subscribe failed and the process has exited with code 1.
C26_Witness ==
    /\ startup_calls = <<[op |-> "Subscribe", ok |-> FALSE]>>
    /\ main_pc = "exited"
    /\ exit_code = 1
    /\ joined = 1

\* ---------------------------------------------------------------------------
\* Properties of the on_change closure, checked under DispatchSpec.

\* C15: whatever goes wrong with one recipient of a transition, every
\* recipient of every rule that matches the unit and the new state gets its
\* outbound call, and the watcher keeps running.
C15_BadRecipientOnlyLogged ==
    fired # <<>> =>
       /\ pc # "exited"
       /\ \A i \in DOMAIN settings.rules :
             ( /\ ExpressionMatches(settings.rules[i].expression, fired[1].unit_name)
               /\ fired[1].seen.active_state \in settings.rules[i].active_states )
             => \A j \in DOMAIN settings.rules[i].notifiers :
                   \E k \in DOMAIN notified :
                      notified[k].notifier_name = settings.rules[i].notifiers[j]

C27_CodecRoundTrips ==
    LET canonical == {"activating", "active", "deactivating", "failed", "inactive"}
    IN  fn_call # Absent
        => /\ fn_call.fn = "decode_encode"
              => fn_call.arg \in ActiveState /\ fn_call.ret = fn_call.arg
           /\ fn_call.fn = "encode_decode"
              => fn_call.arg \in canonical /\ fn_call.ret = fn_call.arg
           /\ fn_call.fn = "try_from"
              => /\ fn_call.arg \in canonical => fn_call.ret \in ActiveState
                 /\ fn_call.arg \notin canonical => fn_call.ret = "InvalidActiveState"
                 /\ fn_call.arg = "activating" => fn_call.ret = "Activating"
                 /\ fn_call.arg = "active" => fn_call.ret = "Active"
                 /\ fn_call.arg = "deactivating" => fn_call.ret = "Deactivating"
                 /\ fn_call.arg = "failed" => fn_call.ret = "Failed"
                 /\ fn_call.arg = "inactive" => fn_call.ret = "Inactive"

\* A canonical string has been decoded and encoded again.
C27_Witness ==
    /\ fn_call # Absent
    /\ fn_call.fn = "encode_decode"
    /\ fn_call.arg = "deactivating"
    /\ fn_call.ret = "deactivating"

\* C28: get_timestamp_key and get_monotonic_timestamp_key are defined for all
\* five variants and give the same property name: activating the time the
\* unit left inactive, active the time it entered active, deactivating the
\* time it left active, failed and inactive the time it entered inactive.
\* Every returned value is one of exactly four fixed strings.
C28_TimestampKeyMapping ==
    LET keys == {"InactiveExitTimestampMonotonic", "ActiveEnterTimestampMonotonic",
                 "ActiveExitTimestampMonotonic", "InactiveEnterTimestampMonotonic"}
    IN  (fn_call # Absent /\ fn_call.fn \in {"get_timestamp_key", "get_monotonic_timestamp_key"})
        => /\ fn_call.arg \in ActiveState
           /\ fn_call.ret \in keys
           /\ Cardinality(keys) = 4
           /\ fn_call.arg = "Activating" => fn_call.ret = "InactiveExitTimestampMonotonic"
           /\ fn_call.arg = "Active" => fn_call.ret = "ActiveEnterTimestampMonotonic"
           /\ fn_call.arg = "Deactivating" => fn_call.ret = "ActiveExitTimestampMonotonic"
           /\ fn_call.arg = "Failed" => fn_call.ret = "InactiveEnterTimestampMonotonic"
           /\ fn_call.arg = "Inactive" => fn_call.ret = "InactiveEnterTimestampMonotonic"

\* The key of a failed unit has been asked for.
C28_Witness ==
    /\ fn_call # Absent
    /\ fn_call.fn = "get_timestamp_key"
    /\ fn_call.arg = "Failed"
    /\ fn_call.ret = "InactiveEnterTimestampMonotonic"

\* C28 as stated: the values get_timestamp_key returns for the five variants
\* are exactly five fixed strings.
C28_FiveFixedStrings ==
    (fn_call # Absent /\ fn_call.fn \in {"get_timestamp_key", "get_monotonic_timestamp_key"})
    => /\ fn_call.ret = get_timestamp_key(fn_call.arg)
       /\ Cardinality({get_timestamp_key(active_state) : active_state \in ActiveState}) = 5

\* C29: for every bus name BusName::new accepts, make_path_like_bus_name
\* returns an object path one character longer than the name that starts with
\* '/' and then agrees with the name character by character, dots having
\* become slashes.
C29_PathIsBusNameWithSlashes ==
    (fn_call # Absent /\ fn_call.fn = "make_path_like_bus_name" /\ ValidBusName(fn_call.arg))
    => /\ ~fn_call.panicked
       /\ Len(fn_call.ret) = Len(fn_call.arg) + 1
       /\ fn_call.ret[1] = "/"
       /\ \A i \in 1..Len(fn_call.arg) :
             fn_call.ret[i + 1] = IF fn_call.arg[i] = "." THEN "/" ELSE fn_call.arg[i]

\* C30: the rule filters return exactly the rules that match, in the order of
\* the list handed in, each occurrence once.  A UnitName expression matches a
\* name equal to it and a UnitType expression a name that ends with it; the
\* state filter keeps the rules whose active_states contain the state;
\* rules_match_name is true exactly when the name filter returns something.
C30_ApplicableRulesInOrder ==
    fn_call # Absent
    => LET name_ok(rule) ==
               LET expr == rule.expression.expr
                   name == fn_call.unit_name
               IN  IF rule.expression.kind = "UnitName"
                   THEN name = expr
                   ELSE /\ Len(expr) <= Len(name)
                        /\ \A i \in 1..Len(expr) :
                              name[Len(name) - Len(expr) + i] = expr[i]
           state_ok(rule) == fn_call.target \in rule.active_states
           \* ret is rules restricted to the indices in keep, in order
           InOrder(rules, keep, ret) ==
               /\ Len(ret) = Cardinality(keep)
               /\ \A i \in keep : ret[Cardinality({j \in keep : j <= i})] = rules[i]
       IN  /\ fn_call.fn = "get_rules_matching_name"
              => InOrder(fn_call.rules,
                         {i \in 1..Len(fn_call.rules) : name_ok(fn_call.rules[i])},
                         fn_call.ret)
           /\ fn_call.fn = "get_rules_matching_active_state"
              => InOrder(fn_call.rules,
                         {i \in 1..Len(fn_call.rules) : state_ok(fn_call.rules[i])},
                         fn_call.ret)
           /\ fn_call.fn = "rules_applicable"
              => InOrder(fn_call.rules,
                         {i \in 1..Len(fn_call.rules) :
                             name_ok(fn_call.rules[i]) /\ state_ok(fn_call.rules[i])},
                         fn_call.ret)
           /\ fn_call.fn = "rules_match_name"
              => /\ fn_call.ret = (fn_call.by_name # <<>>)
                 /\ fn_call.ret = (\E i \in 1..Len(fn_call.rules) : name_ok(fn_call.rules[i]))

\* From a list of MaxRules rules, the two that match foo.service entering
\* failed have been returned in the order of the list, the unit-type rule
\* first.
C30_Witness ==
    /\ fn_call # Absent
    /\ fn_call.fn = "rules_applicable"
    /\ fn_call.unit_name = FooService
    /\ fn_call.target = "Failed"
    /\ Len(fn_call.rules) = MaxRules
    /\ fn_call.rules[1] = RuleServices
    /\ fn_call.rules[MaxRules] = RuleSession
    /\ Len(fn_call.ret) = 2
    /\ fn_call.ret[1] = RuleServices
    /\ fn_call.ret[2] = RuleSession

\* ---------------------------------------------------------------------------
\* Properties of the configuration loader, checked under LoadSpec.

\* C31: the loader accepts a bus_type, of a rule or of a notifier, if and only
\* if it is "session" or "system": a file with any other bus_type is rejected
\* with InvalidBusType and gives no settings, and such a bus_type is the only
\* reason for InvalidBusType.
C31_OnlySessionAndSystemAccepted ==
    (fn_call # Absent /\ fn_call.fn = "Settings::try_from")
    => LET value == fn_call.arg
           ret == fn_call.ret
           file_bus_types == {value.notifiers[l].bus_type : l \in DOMAIN value.notifiers}
                        \cup {value.rules[i].bus_type : i \in 1..Len(value.rules)}
       IN  /\ ret.ok => file_bus_types \subseteq {"session", "system"}
           /\ ret.err = "InvalidBusType" => ~(file_bus_types \subseteq {"session", "system"})
           /\ ret.ok => ret.settings # Absent
           /\ ~ret.ok => ret.settings = Absent

\* C34: every settings object the loader produces has referential integrity:
\* each label a rule names is a key of the notifier map.  A file with a rule
\* that names an undefined label is never loaded, and when nothing else is
\* wrong with the file the error is InvalidNotifier.  The label lookup of
\* gen_on_change's closure therefore succeeds under every loaded
\* configuration.
C34_LoadedSettingsHaveReferentialIntegrity ==
    (fn_call # Absent /\ fn_call.fn = "Settings::try_from")
    => LET value == fn_call.arg
           ret == fn_call.ret
           dangling == \E i \in 1..Len(value.rules) :
                          \E j \in 1..Len(value.rules[i].notifiers) :
                             value.rules[i].notifiers[j] \notin DOMAIN value.notifiers
           otherwise_fine ==
               /\ \A l \in DOMAIN value.notifiers : NotifierError(value.notifiers[l]) = None
               /\ \A i \in 1..Len(value.rules) : RuleError(value.rules[i]) = None
       IN  /\ ret.ok
              => /\ \A i \in 1..Len(ret.settings.rules) :
                       \A j \in 1..Len(ret.settings.rules[i].notifiers) :
                          ret.settings.rules[i].notifiers[j] \in DOMAIN ret.settings.notifiers
                 /\ \A unit_name \in Units, active_state \in ActiveState :
                       LET targets == gen_on_change(ret.settings, unit_name,
                                          [seen |-> UnitStateMachine(active_state, 0),
                                           old_state |-> None])
                       IN  \A k \in 1..Len(targets) : ~targets[k].missing
           /\ dangling => ~ret.ok
           /\ (dangling /\ otherwise_fine) => ret.err = "InvalidNotifier"
           /\ ret.err = "InvalidNotifier" => dangling

\* A file whose two rules name labels r and q, both defined, has been loaded.
C34_Witness ==
    /\ fn_call # Absent
    /\ fn_call.fn = "Settings::try_from"
    /\ fn_call.ret.ok
    /\ Len(fn_call.ret.settings.rules) = MaxFileRules
    /\ fn_call.ret.settings.rules[1].notifiers = <<"r", "q">>
    /\ DOMAIN fn_call.ret.settings.notifiers = {"r", "q"}
    /\ gen_on_change(fn_call.ret.settings, FooService,
                     [seen |-> UnitStateMachine("Failed", 0), old_state |-> None]) # <<>>

\* ---------------------------------------------------------------------------
\* Properties of two watchers side by side, checked under PairSpec.

RECURSIVE RunAlone(_)
\* What a watcher that runs alone holds and has fired after taking events.
RunAlone(events) ==
    IF events = <<>>
    THEN [unit_states |-> <<>>, fired |-> <<>>]
    ELSE LET before == RunAlone(SubSeq(events, 1, Len(events) - 1))
             event == events[Len(events)]
             r == Upsert(before.unit_states, event.unit_name, event.active_state,
                         event.timestamp)
         IN  [unit_states |-> r.states, fired |-> before.fired \o r.calls]

C36_EarliestOfNewestObservationIsStored ==
    (watchers # Absent /\ watchers["Session"].handled # <<>>)
    => LET seen == watchers["Session"].handled
           newest == CHOOSE i \in 1..Len(seen) :
                        /\ \A j \in 1..Len(seen) : seen[j].timestamp <= seen[i].timestamp
                        /\ \A j \in 1..(i - 1) : seen[j].timestamp < seen[i].timestamp
           stored == watchers["Session"].unit_states[FooService]
       IN  /\ stored.mono_ts = seen[newest].timestamp
           /\ stored.active_state = seen[newest].active_state
           /\ \A j \in 1..Len(seen) : seen[j].timestamp <= stored.mono_ts

\* Three observations were taken, the second with the largest timestamp and
\* the third with the same timestamp and another state; the second is stored.
C36_Witness ==
    /\ watchers # Absent
    /\ DOMAIN watchers = {"Session"}
    /\ Len(watchers["Session"].handled) = 3
    /\ watchers["Session"].handled[1].timestamp < watchers["Session"].handled[2].timestamp
    /\ watchers["Session"].handled[3].timestamp = watchers["Session"].handled[2].timestamp
    /\ watchers["Session"].handled[3].active_state
          # watchers["Session"].handled[2].active_state
    /\ watchers["Session"].unit_states[FooService].active_state
          = watchers["Session"].handled[2].active_state

\* ---------------------------------------------------------------------------
\* Properties of a failing callback, checked under FallibleSpec.

\* C39: when on_change is called and returns an error, update returns the
\* error and the machine keeps the new state and the new timestamp it had
\* already stored; new returns the error and no machine, so there is no
\* instance for that observation.  new and update return an error in no other
\* case.
C39_CallbackErrorIsPassedOnWithoutRollback ==
    (usm_op # Absent) =>
        /\ (usm_op.ret = "Err") <=> (usm_calls # <<>> /\ ~usm_op.cb_ok)
        /\ (usm_op.ret = "Err" /\ usm_op.kind = "update") =>
              /\ usm = [active_state |-> usm_op.active_state, mono_ts |-> usm_op.mono_ts]
              /\ usm.active_state # usm_prev.active_state
              /\ usm.mono_ts > usm_prev.mono_ts
              /\ usm_calls = <<[seen |-> usm, old_state |-> usm_prev.active_state]>>
        /\ (usm_op.ret = "Err" /\ usm_op.kind = "new") =>
              /\ usm = Absent
              /\ usm_prev = Absent
              /\ Len(usm_calls) = 1
              /\ usm_calls[1].old_state = None

\* An update whose callback failed has left the new state and timestamp.
C39_Witness ==
    /\ usm_op # Absent
    /\ usm_op.kind = "update"
    /\ usm_op.ret = "Err"
    /\ usm # usm_prev
    /\ usm.active_state = usm_op.active_state
    /\ usm.mono_ts = usm_op.mono_ts

====
